---- MODULE Spec2Model ----
(***************************************************************************)
(* A model of the AIG class-list processor (src/aig_processor.py).         *)
(*                                                                         *)
(* Strings are sequences of characters; a character is a one-element       *)
(* string such as "a", except for two characters outside ASCII that are    *)
(* written by name: "j_caron" (U+01F0, a lowercase letter whose title and  *)
(* upper case is the two characters "J", U+030C) and "caron" (U+030C, a    *)
(* combining mark, neither cased nor whitespace).                          *)
(***************************************************************************)
EXTENDS Integers, Sequences, FiniteSets, TLC

(***************************************************************************)
(* Bounds of the model.                                                    *)
(***************************************************************************)
MaxPdfLines == 2
MaxWordRows == 1
MaxCalls == 2
MaxNameLen == 3

\* the most PDF files, and the most spreadsheets, batch mode finds
MaxBatchFiles == 2

(***************************************************************************)
(* Characters and the str methods the processor uses.                      *)
(***************************************************************************)
LowerCase ==
  <<"a","b","c","d","e","f","g","h","i","j","k","l","m",
    "n","o","p","q","r","s","t","u","v","w","x","y","z">>

UpperCase ==
  <<"A","B","C","D","E","F","G","H","I","J","K","L","M",
    "N","O","P","Q","R","S","T","U","V","W","X","Y","Z">>

Digits == {"0","1","2","3","4","5","6","7","8","9"}

IsLowerChar(c) == c = "j_caron" \/ \E i \in 1..26 : LowerCase[i] = c

IsUpperChar(c) == \E i \in 1..26 : UpperCase[i] = c

\* str.isspace of one character
IsSpace(c) == c \in {" ", "\t"}

\* the Unicode property Cased, which str.title consults
IsCased(c) == IsLowerChar(c) \/ IsUpperChar(c)

\* str.lower of one character
LowerChar(c) ==
  IF IsUpperChar(c)
  THEN LowerCase[CHOOSE i \in 1..26 : UpperCase[i] = c]
  ELSE c

\* str.upper of one character: a string, since U+01F0 has a two-character upper case
UpperChar(c) ==
  IF c = "j_caron" THEN <<"J", "caron">>
  ELSE IF IsLowerChar(c)
  THEN <<UpperCase[CHOOSE i \in 1..26 : LowerCase[i] = c]>>
  ELSE <<c>>

\* the title case of one character (equal to its upper case for every character here)
TitleChar(c) == UpperChar(c)

RECURSIVE LowerFrom(_, _)
LowerFrom(s, i) ==
  IF i > Len(s) THEN <<>> ELSE <<LowerChar(s[i])>> \o LowerFrom(s, i + 1)

\* str.lower
Lower(s) == LowerFrom(s, 1)

RECURSIVE UpperFrom(_, _)
UpperFrom(s, i) ==
  IF i > Len(s) THEN <<>> ELSE UpperChar(s[i]) \o UpperFrom(s, i + 1)

\* str.upper
Upper(s) == UpperFrom(s, 1)

RECURSIVE TitleFrom(_, _, _)
TitleFrom(s, i, previous_is_cased) ==
  IF i > Len(s) THEN <<>>
  ELSE (IF previous_is_cased THEN <<LowerChar(s[i])>> ELSE TitleChar(s[i]))
         \o TitleFrom(s, i + 1, IsCased(s[i]))

\* str.title: a character after a cased character is lowered, any other is title-cased
Title(s) == TitleFrom(s, 1, FALSE)

\* str.strip
Strip(s) ==
  LET keep == {i \in 1..Len(s) : ~IsSpace(s[i])}
  IN  IF keep = {} THEN <<>>
      ELSE SubSeq(s, CHOOSE i \in keep : \A j \in keep : i <= j,
                     CHOOSE i \in keep : \A j \in keep : i >= j)

RECURSIVE CollapseFrom(_, _)
CollapseFrom(s, i) ==
  IF i > Len(s) THEN <<>>
  ELSE IF IsSpace(s[i])
       THEN (IF i > 1 /\ IsSpace(s[i - 1]) THEN <<>> ELSE <<" ">>) \o CollapseFrom(s, i + 1)
       ELSE <<s[i]>> \o CollapseFrom(s, i + 1)

\* re.sub(r'\s+', ' ', s)
CollapseSpaces(s) == CollapseFrom(s, 1)

RECURSIVE SplitFrom(_, _, _, _)
SplitFrom(s, i, cur, acc) ==
  IF i > Len(s) THEN (IF cur = <<>> THEN acc ELSE Append(acc, cur))
  ELSE IF IsSpace(s[i])
       THEN SplitFrom(s, i + 1, <<>>, IF cur = <<>> THEN acc ELSE Append(acc, cur))
       ELSE SplitFrom(s, i + 1, Append(cur, s[i]), acc)

\* str.split() with no argument: the whitespace-delimited tokens
Split(s) == SplitFrom(s, 1, <<>>, <<>>)

RECURSIVE JoinFrom(_, _, _)
JoinFrom(parts, i, sep) ==
  IF i > Len(parts) THEN <<>>
  ELSE IF i = Len(parts) THEN parts[i]
  ELSE parts[i] \o sep \o JoinFrom(parts, i + 1, sep)

\* sep.join(parts)
Join(parts, sep) == JoinFrom(parts, 1, sep)

\* sub in s
Contains(s, sub) ==
  \E i \in 1..(Len(s) - Len(sub) + 1) : SubSeq(s, i, i + Len(sub) - 1) = sub

\* s.startswith(prefix)
StartsWith(s, prefix) ==
  Len(prefix) <= Len(s) /\ SubSeq(s, 1, Len(prefix)) = prefix

\* str.isdigit
IsDigitStr(s) == Len(s) >= 1 /\ \A i \in 1..Len(s) : s[i] \in Digits

RECURSIVE RemoveCommasFrom(_, _)
RemoveCommasFrom(s, i) ==
  IF i > Len(s) THEN <<>>
  ELSE (IF s[i] = "," THEN <<>> ELSE <<s[i]>>) \o RemoveCommasFrom(s, i + 1)

\* s.replace(',', '')
RemoveCommas(s) == RemoveCommasFrom(s, 1)

(***************************************************************************)
(* _normalize_name: strip, collapse whitespace runs, title-case.           *)
(***************************************************************************)
_normalize_name(name) == Title(CollapseSpaces(Strip(name)))

(***************************************************************************)
(* String constants of the program.                                        *)
(***************************************************************************)
Sp == <<" ">>

Dash == <<"-">>

TD == <<"T","D">>

AG == <<"A","G">>

IG == <<"I","G">>

AIG == <<"A","I","G">>

NA == <<"N","/","A">>

LASTNAME == <<"L","A","S","T","N","A","M","E">>

LAST == <<"L","A","S","T">>

HeaderColumns ==
  <<"N","a","m","e"," ","S","t","u","d","e","n","t"," ","I","d"," ","G","r","a","d","e",
    " ","R","e","a","d","i","n","g"," ","M","a","t","h">>

HeaderRoster == <<"S","c","h","o","o","l"," ","R","o","s","t","e","r">>

\* the least length of a numeric token taken as a student id
MinStudentIdLen == 8

\* a token list that leaves TD out of the AIG tokens
PdfAigTokensWithoutTD == {AG, IG, AIG}

\* status tokens that mark a subject as AIG in the PDF roster
PdfAigTokens == {TD, AG, IG, AIG}

\* a token list that takes only AIG as stronger than TD
PdfStrongOnlyAIG == {AIG}

\* status tokens stronger than TD in the PDF roster
PdfStrongTokens == {AG, IG, AIG}

\* status tokens that mark a subject as AIG in the Word table
WordAigTokens == {TD, AIG}

(***************************************************************************)
(* The processor's attributes that the extraction steps read and write,    *)
(* as one record self; student_details is absent until the first record    *)
(* is stored and every reader guards with hasattr, so the absent attribute *)
(* is the empty map.                                                       *)
(***************************************************************************)
NoDetails == [n \in {} |-> FALSE]

\* dict assignment d[key] = value
DictSet(d, key, value) ==
  [n \in (DOMAIN d) \cup {key} |-> IF n = key THEN value ELSE d[n]]

\* an upsert that toggles the flags of an existing record
StoreToggled(details, name, info) ==
  IF name \in DOMAIN details
  THEN DictSet(details, name,
               [info EXCEPT !.reading = (details[name].reading # info.reading),
                            !.math = (details[name].math # info.math)])
  ELSE DictSet(details, name, info)

\* a store that keeps no record of the line
StorePdfRecordDropped(details, name, info) == details

\* self.student_details[normalized_name] = student_info
StorePdfRecord(details, name, info) == DictSet(details, name, info)

\* the index of the first token of parts that contains a comma (0 if none)
FirstCommaToken(parts) ==
  IF \E i \in 1..Len(parts) : Contains(parts[i], <<",">>)
  THEN CHOOSE i \in 1..Len(parts) :
         /\ Contains(parts[i], <<",">>)
         /\ \A j \in 1..(i - 1) : ~Contains(parts[j], <<",">>)
  ELSE 0

\* an anchor search that takes any numeric token, whatever its length
AnyNumericAnchor(data_parts) ==
  IF \E i \in 1..Len(data_parts) : IsDigitStr(data_parts[i])
  THEN (CHOOSE i \in 1..Len(data_parts) :
          /\ IsDigitStr(data_parts[i])
          /\ \A j \in 1..(i - 1) : ~IsDigitStr(data_parts[j])) - 1
  ELSE -1

\* student_id_idx: the 0-based index of the first purely numeric data token of
\* length >= 8, or -1
StudentIdIdx(data_parts) ==
  LET IsId(p) == IsDigitStr(p) /\ Len(p) >= MinStudentIdLen
  IN  IF \E i \in 1..Len(data_parts) : IsId(data_parts[i])
      THEN (CHOOSE i \in 1..Len(data_parts) :
              /\ IsId(data_parts[i])
              /\ \A j \in 1..(i - 1) : ~IsId(data_parts[j])) - 1
      ELSE -1

\* the fields of one PDF line; ok is FALSE when the line stores nothing
PdfLineFields(raw) ==
  LET line == Strip(raw)
      parts == Split(line)
      c == FirstCommaToken(parts)
      name_parts == SubSeq(parts, 1, c)
      data_parts == SubSeq(parts, c + 1, Len(parts))
      student_id_idx == StudentIdIdx(data_parts)
      first_name == Join(SubSeq(data_parts, 1, student_id_idx), Sp)
      remaining_parts == SubSeq(data_parts, student_id_idx + 1, Len(data_parts))
      usable ==
        /\ line # <<>>
        /\ ~Contains(line, HeaderColumns)
        /\ ~Contains(line, HeaderRoster)
        /\ Contains(line, <<",">>)
        /\ student_id_idx >= 1
        /\ Len(remaining_parts) >= 4
  IN  IF ~usable THEN [ok |-> FALSE]
      ELSE [ok |-> TRUE,
            name |-> _normalize_name(Join(name_parts, Sp) \o Sp \o first_name),
            student_id |-> remaining_parts[1],
            grade |-> remaining_parts[2],
            reading_status |-> remaining_parts[3],
            math_status |-> remaining_parts[4]]

\* the body of the loop of _parse_aig_text for one line
ParsePdfLine(self, raw) ==
  LET f == PdfLineFields(raw)
  IN  IF ~f.ok THEN self
      ELSE
        LET is_aig_reading == Upper(f.reading_status) \in PdfAigTokens
            is_aig_math == Upper(f.math_status) \in PdfAigTokens
            td_only ==
              /\ (Upper(f.reading_status) = TD \/ Upper(f.math_status) = TD)
              /\ ~(\/ Upper(f.reading_status) \in PdfStrongTokens
                   \/ Upper(f.math_status) \in PdfStrongTokens)
            student_info ==
              [name |-> f.name, student_id |-> f.student_id, grade |-> f.grade,
               reading |-> is_aig_reading, math |-> is_aig_math]
        IN  [self EXCEPT
               !.stats.td_only_students = IF td_only THEN @ \cup {f.name} ELSE @,
               !.aig_students =
                   [math |-> IF is_aig_math THEN @.math \cup {f.name} ELSE @.math,
                    reading |-> IF is_aig_reading THEN @.reading \cup {f.name}
                                ELSE @.reading],
               !.student_details = StorePdfRecord(@, f.name, student_info),
               !.students_in_sources = @ \cup {f.name}]

(***************************************************************************)
(* _process_word_name and the body of the loop of                          *)
(* extract_aig_students_from_word for one table row.                       *)
(***************************************************************************)
\* a conversion that takes the first token of a name without a comma as the last name
_process_word_name_last_first(name_text) ==
  LET text == Strip(name_text)
      parts == Split(text)
  IN  IF Contains(text, <<",">>) THEN _normalize_name(text)
      ELSE IF Len(parts) >= 2
           THEN _normalize_name(
                  parts[1] \o <<",", " ">> \o Join(SubSeq(parts, 2, Len(parts)), Sp))
           ELSE _normalize_name(text)

_process_word_name(name_text) ==
  LET text == Strip(name_text)
      parts == Split(text)
  IN  IF Contains(text, <<",">>) THEN _normalize_name(text)
      ELSE IF Len(parts) >= 2
           THEN _normalize_name(
                  Join(SubSeq(parts, 2, Len(parts)), Sp) \o <<",", " ">> \o parts[1])
           ELSE _normalize_name(text)

\* a merge that overwrites the flags of an existing record
MergeOverwrite(details, name, is_aig_reading, is_aig_math) ==
  IF name \in DOMAIN details
  THEN DictSet(details, name,
               [details[name] EXCEPT !.reading = is_aig_reading, !.math = is_aig_math])
  ELSE DictSet(details, name,
               [name |-> name, student_id |-> NA, grade |-> NA,
                reading |-> is_aig_reading, math |-> is_aig_math])

\* update or create the record of a Word row
MergeWordRecord(details, name, is_aig_reading, is_aig_math) ==
  IF name \in DOMAIN details
  THEN DictSet(details, name,
               [details[name] EXCEPT !.reading = @ \/ is_aig_reading,
                                     !.math = @ \/ is_aig_math])
  ELSE DictSet(details, name,
               [name |-> name, student_id |-> NA, grade |-> NA,
                reading |-> is_aig_reading, math |-> is_aig_math])

ProcessWordRow(self, cells) ==
  IF Len(cells) < 3 THEN self
  ELSE
    LET name_text == Strip(cells[1])
        reading_text == Strip(cells[2])
        math_text == Strip(cells[3])
        normalized_name == _process_word_name(name_text)
        is_aig_reading == Upper(reading_text) \in WordAigTokens
        is_aig_math == Upper(math_text) \in WordAigTokens
        td_only ==
          /\ (Upper(reading_text) = TD \/ Upper(math_text) = TD)
          /\ Upper(reading_text) # AIG
          /\ Upper(math_text) # AIG
    IN  IF name_text = <<>> THEN self
        ELSE [self EXCEPT
                !.stats.td_only_students = IF td_only THEN @ \cup {normalized_name} ELSE @,
                !.student_details =
                    MergeWordRecord(@, normalized_name, is_aig_reading, is_aig_math),
                !.aig_students =
                    [math |-> IF is_aig_math THEN @.math \cup {normalized_name}
                              ELSE @.math,
                     reading |-> IF is_aig_reading THEN @.reading \cup {normalized_name}
                                 ELSE @.reading],
                !.students_in_sources = @ \cup {normalized_name}]

(***************************************************************************)
(* _names_match and _find_student_in_aig.                                  *)
(***************************************************************************)
\* a comparison that takes first names as matching only when they are equal
_names_match_equal_first(name1, name2) ==
  LET parts1 == Split(RemoveCommas(name1))
      parts2 == Split(RemoveCommas(name2))
  IN  /\ Len(parts1) >= 2
      /\ Len(parts2) >= 2
      /\ Lower(parts1[1]) = Lower(parts2[1])
      /\ Lower(parts1[2]) = Lower(parts2[2])

_names_match(name1, name2) ==
  LET parts1 == Split(RemoveCommas(name1))
      parts2 == Split(RemoveCommas(name2))
  IN  /\ Len(parts1) >= 2
      /\ Len(parts2) >= 2
      /\ Lower(parts1[1]) = Lower(parts2[1])
      /\ LET first1 == Lower(parts1[2])
             first2 == Lower(parts2[2])
         IN  first1 = first2 \/ StartsWith(first1, first2) \/ StartsWith(first2, first1)

\* a lookup that trusts the record only when its grade is the classroom grade
_find_student_in_aig_same_grade(self, student_name, classroom_grade) ==
  LET normalized_name == _normalize_name(student_name)
  IN  IF /\ normalized_name \in DOMAIN self.student_details
         /\ self.student_details[normalized_name].grade = classroom_grade
      THEN [math |-> self.student_details[normalized_name].math,
            reading |-> self.student_details[normalized_name].reading]
      ELSE [math |-> \/ normalized_name \in self.aig_students.math
                     \/ \E aig_name \in self.aig_students.math :
                          _names_match(normalized_name, aig_name),
            reading |-> \/ normalized_name \in self.aig_students.reading
                        \/ \E aig_name \in self.aig_students.reading :
                             _names_match(normalized_name, aig_name)]

\* the grade given is not None and differs from the grade of the record of the name
GradeMismatch(self, student_name, classroom_grade) ==
  LET normalized_name == _normalize_name(student_name)
  IN  /\ normalized_name \in DOMAIN self.student_details
      /\ classroom_grade # <<>>
      /\ self.student_details[normalized_name].grade # classroom_grade

\* the grade mismatch is only logged: the flags do not depend on classroom_grade
_find_student_in_aig(self, student_name, classroom_grade) ==
  LET normalized_name == _normalize_name(student_name)
  IN  IF normalized_name \in DOMAIN self.student_details
      THEN [math |-> self.student_details[normalized_name].math,
            reading |-> self.student_details[normalized_name].reading]
      ELSE [math |-> \/ normalized_name \in self.aig_students.math
                     \/ \E aig_name \in self.aig_students.math :
                          _names_match(normalized_name, aig_name),
            reading |-> \/ normalized_name \in self.aig_students.reading
                        \/ \E aig_name \in self.aig_students.reading :
                             _names_match(normalized_name, aig_name)]

(***************************************************************************)
(* The classroom rows of update_excel_with_aig_data.  A sheet is the       *)
(* sequence of its rows as pandas reads them with header=None, each row    *)
(* the cells of its first two columns; an empty cell (NaN) is <<>>.        *)
(***************************************************************************)
NaN == <<>>

\* df.iloc[2:, :2].dropna(how='all')
StudentData(sheet) ==
  SelectSeq(SubSeq(sheet.rows, 3, Len(sheet.rows)),
            LAMBDA row : ~(row[1] = NaN /\ row[2] = NaN))

(***************************************************************************)
(* The grade of _extract_classroom_info: the first match in the lowered    *)
(* text of the metadata row of                                             *)
(*   (\d+)(?:st|nd|rd|th)?\s*grade|grade\s*(\d+)                           *)
(* None is <<>>.                                                           *)
(***************************************************************************)
GradeWord == <<"g","r","a","d","e">>

OrdinalSuffixes == {<<"s","t">>, <<"n","d">>, <<"r","d">>, <<"t","h">>}

\* whether word stands in text at position i
HasAt(text, i, word) ==
  i + Len(word) - 1 <= Len(text) /\ SubSeq(text, i, i + Len(word) - 1) = word

\* the length of the longest run of digits of text that starts at position i
DigitRun(text, i) ==
  IF i > Len(text) \/ text[i] \notin Digits THEN 0
  ELSE CHOOSE d \in 1..(Len(text) - i + 1) :
         /\ \A k \in i..(i + d - 1) : text[k] \in Digits
         /\ (i + d > Len(text) \/ text[i + d] \notin Digits)

\* the length of the longest run of whitespace of text that starts at position i
SpaceRun(text, i) ==
  IF i > Len(text) \/ ~IsSpace(text[i]) THEN 0
  ELSE CHOOSE d \in 1..(Len(text) - i + 1) :
         /\ \A k \in i..(i + d - 1) : IsSpace(text[k])
         /\ (i + d > Len(text) \/ ~IsSpace(text[i + d]))

\* (\d+)(?:st|nd|rd|th)?\s*grade matches at position i
GradeFirstAt(text, i) ==
  LET after == i + DigitRun(text, i)
  IN  /\ DigitRun(text, i) >= 1
      /\ \/ HasAt(text, after + SpaceRun(text, after), GradeWord)
         \/ \E suffix \in OrdinalSuffixes :
              /\ HasAt(text, after, suffix)
              /\ HasAt(text, after + 2 + SpaceRun(text, after + 2), GradeWord)

\* grade\s*(\d+) matches at position i
GradeSecondAt(text, i) ==
  /\ HasAt(text, i, GradeWord)
  /\ DigitRun(text, i + Len(GradeWord) + SpaceRun(text, i + Len(GradeWord))) >= 1

\* classroom_info['grade']
_extract_classroom_info(first_row) ==
  LET cells == SelectSeq(first_row, LAMBDA val : val # NaN)
      text == Lower(Join(cells, Sp))
      found == {i \in 1..Len(text) : GradeFirstAt(text, i) \/ GradeSecondAt(text, i)}
  IN  IF found = {} THEN [grade |-> <<>>]
      ELSE LET i == CHOOSE j \in found : \A k \in found : j <= k
               at == IF GradeFirstAt(text, i) THEN i
                     ELSE i + Len(GradeWord) + SpaceRun(text, i + Len(GradeWord))
           IN  [grade |-> SubSeq(text, at, at + DigitRun(text, at) - 1)]

\* the status text of a pair of flags
StatusText(aig_status) ==
  IF aig_status.math /\ aig_status.reading THEN "Both Math & Reading"
  ELSE IF aig_status.math THEN "Math Only"
  ELSE IF aig_status.reading THEN "Reading Only"
  ELSE "None"

\* the counter of self.stats that a pair of flags increments
StatusCounter(aig_status) ==
  IF aig_status.math /\ aig_status.reading THEN "aig_both"
  ELSE IF aig_status.math THEN "aig_math_only"
  ELSE IF aig_status.reading THEN "aig_reading_only"
  ELSE "aig_none"

\* self.colors: the colour of the fill of each status, by its RGB value
Colors == [both |-> "FFFF00", math |-> "ADD8E6", reading |-> "FFA500"]

\* no fill
NoColor == "none"

\* the fill chosen for a pair of flags, whatever the flags
StatusColorAlwaysBoth(aig_status) == Colors.both

\* the fill chosen for a pair of flags
StatusColor(aig_status) ==
  IF aig_status.math /\ aig_status.reading THEN Colors.both
  ELSE IF aig_status.math THEN Colors.math
  ELSE IF aig_status.reading THEN Colors.reading
  ELSE NoColor

\* a worksheet as create_sheet() and the appends of the metadata and header rows
\* leave it: the student rows appended, the sheet row each was written to, the fill
\* of the cells of each sheet row that has one, and the last row written
NewSheet(title) ==
  [title |-> title, rows |-> <<>>, placed |-> <<>>, fill |-> [r \in {} |-> NoColor],
   current_row |-> 2]

\* ws.append(row_data): the row is written below the last row of the sheet
WsAppend(ws, row_data) ==
  [ws EXCEPT !.rows = Append(@, row_data),
             !.placed = Append(@, ws.current_row + 1),
             !.current_row = @ + 1]

\* ws.cell(row=idx, column=col_idx).fill = color for the columns A to E, when a fill
\* was chosen; cell() makes the cells of a row below the last row
WsFill(ws, idx, color) ==
  IF color = NoColor THEN ws
  ELSE [ws EXCEPT !.fill = DictSet(@, idx, color),
                  !.current_row = IF idx > @ THEN idx ELSE @]

\* whether a row of the student data is counted as a student
IsStudentRow(row) ==
  LET lastname == Strip(row[1])
      firstname == Strip(row[2])
  IN  lastname # <<>> /\ firstname # <<>> /\ Upper(lastname) \notin {LASTNAME, LAST}

\* a row loop that also records the classroom name as seen in a source
CountStudentRowAsSource(self, row, classroom_info) ==
  LET full_name == Strip(row[1]) \o <<",", " ">> \o Strip(row[2])
      aig_status == _find_student_in_aig(self, full_name, classroom_info.grade)
  IN  [self EXCEPT
         !.stats = [@ EXCEPT !.total_students = @ + 1,
                             ![StatusCounter(aig_status)] = @ + 1],
         !.students_in_excel = @ \cup {_normalize_name(full_name)},
         !.students_in_sources = @ \cup {_normalize_name(full_name)}]

\* a row loop that counts the row in total_students and in no status counter
CountStudentRowTotalOnly(self, row, classroom_info) ==
  LET full_name == Strip(row[1]) \o <<",", " ">> \o Strip(row[2])
  IN  [self EXCEPT
         !.stats = [@ EXCEPT !.total_students = @ + 1],
         !.students_in_excel = @ \cup {_normalize_name(full_name)}]

\* the body of the row loop for one counted row: the attributes afterwards
CountStudentRow(self, row, classroom_info) ==
  LET full_name == Strip(row[1]) \o <<",", " ">> \o Strip(row[2])
      aig_status == _find_student_in_aig(self, full_name, classroom_info.grade)
  IN  [self EXCEPT
         !.stats = [@ EXCEPT !.total_students = @ + 1,
                             ![StatusCounter(aig_status)] = @ + 1],
         !.students_in_excel = @ \cup {_normalize_name(full_name)}]

\* the row appended to the worksheet for one counted row
RowData(self, row, classroom_info) ==
  LET full_name == Strip(row[1]) \o <<",", " ">> \o Strip(row[2])
      aig_status == _find_student_in_aig(self, full_name, classroom_info.grade)
  IN  [lastname |-> Strip(row[1]), firstname |-> Strip(row[2]),
       math |-> aig_status.math, reading |-> aig_status.reading,
       status |-> StatusText(aig_status)]

(***************************************************************************)
(* The rows of generate_missing_students_report.  sorted() orders strings  *)
(* by the code points of their characters.                                 *)
(***************************************************************************)
\* the characters of the model in the order of their code points
CodePoints ==
  <<"\t", " ", ",", "-", "/">>
    \o <<"0","1","2","3","4","5","6","7","8","9">>
    \o UpperCase \o LowerCase \o <<"j_caron", "caron">>

CodePoint(c) == CHOOSE i \in 1..Len(CodePoints) : CodePoints[i] = c

\* s < t for two str
StrLess(s, t) ==
  \/ Len(s) < Len(t) /\ SubSeq(t, 1, Len(s)) = s
  \/ \E k \in 1..Len(s) :
       /\ k <= Len(t)
       /\ SubSeq(s, 1, k - 1) = SubSeq(t, 1, k - 1)
       /\ CodePoint(s[k]) < CodePoint(t[k])

\* sorted(names)
RECURSIVE Sorted(_)
Sorted(names) ==
  IF names = {} THEN <<>>
  ELSE LET least == CHOOSE n \in names : \A m \in names \ {n} : StrLess(n, m)
       IN  <<least>> \o Sorted(names \ {least})

\* a source attribution that names the PDF for every record
MissingSourceAlwaysPdf(student_info) == "PDF"

\* the source a record of the missing-students report is attributed to
MissingSource(student_info) ==
  IF student_info.student_id = NA THEN "Word Document" ELSE "PDF"

\* the rows appended to the sheet "Students Not In Excel", below its header row
MissingRows(self) ==
  LET missing_students == self.students_in_sources \ self.students_in_excel
      listed == SelectSeq(Sorted(missing_students),
                          LAMBDA student_name : student_name \in DOMAIN self.student_details)
  IN  [i \in 1..Len(listed) |->
         LET student_info == self.student_details[listed[i]]
         IN  [name |-> listed[i],
              source |-> MissingSource(student_info),
              student_id |-> student_info.student_id,
              grade |-> student_info.grade,
              math |-> student_info.math,
              reading |-> student_info.reading,
              status |-> StatusText(student_info)]]

\* a test that keeps only the students who are AIG in both subjects
InAigOnlyBoth(row_data) == row_data.math /\ row_data.reading

\* whether a counted row is also appended to the sheet of the AIG-only workbook
InAigOnly(row_data) == row_data.math \/ row_data.reading

(***************************************************************************)
(* Inputs: the lines of the PDF text, the rows of the Word table and the   *)
(* sheets of the workbook, drawn from the sets below.                      *)
(***************************************************************************)
\* "Smith, John 123456789 3 AIG TD"
LineSmith ==
  <<"S","m","i","t","h",","," ","J","o","h","n"," ","1","2","3","4","5","6","7","8",
    "9"," ","3"," ","A","I","G"," ","T","D">>

\* "SMITH,  JOHN 123456789 3 - -"
LineSmithNone ==
  <<"S","M","I","T","H",","," "," ","J","O","H","N"," ","1","2","3","4","5","6","7",
    "8","9"," ","3"," ","-"," ","-">>

\* "Smith, John 123456789 3 TD -"
LineSmithTd ==
  <<"S","m","i","t","h",","," ","J","o","h","n"," ","1","2","3","4","5","6","7","8","9",
    " ","3"," ","T","D"," ","-">>

\* "Lee, Mary Jo 33445566 5 td ag"
LineLee ==
  <<"L","e","e",","," ","M","a","r","y"," ","J","o"," ","3","3","4","4","5","5","6",
    "6"," ","5"," ","t","d"," ","a","g">>

\* "Doe Ann 22334455 4 TD AG"
LineNoComma ==
  <<"D","o","e"," ","A","n","n"," ","2","2","3","3","4","4","5","5"," ","4"," ","T",
    "D"," ","A","G">>

\* "Doe, Ann 2233445 4 TD AG"
LineNoAnchor ==
  <<"D","o","e",","," ","A","n","n"," ","2","2","3","3","4","4","5"," ","4"," ","T",
    "D"," ","A","G">>

\* "Doe, 22334455 4 TD AG"
LineAnchorFirst ==
  <<"D","o","e",","," ","2","2","3","3","4","4","5","5"," ","4"," ","T","D"," ","A",
    "G">>

\* "Doe, Ann 22334455 4 TD"
LineShort ==
  <<"D","o","e",","," ","A","n","n"," ","2","2","3","3","4","4","5","5"," ","4"," ",
    "T","D">>

\* "Name Student Id Grade Reading Math"
LineHeader ==
  <<"N","a","m","e"," ","S","t","u","d","e","n","t"," ","I","d"," ","G","r","a","d",
    "e"," ","R","e","a","d","i","n","g"," ","M","a","t","h">>

\* the lines a PDF text is drawn from when the extraction is examined
PdfLineSet ==
  {LineSmith, LineSmithNone, LineSmithTd, LineLee,
   LineNoComma, LineNoAnchor, LineAnchorFirst, LineShort}

\* the lines a PDF text is drawn from when the whole run is examined
\* "Nguyen, Alexander 44556677 3 - AIG"
LineNguyen ==
  <<"N","g","u","y","e","n",","," ","A","l","e","x","a","n","d","e","r"," ","4","4","5",
    "5","6","6","7","7"," ","3"," ","-"," ","A","I","G">>

\* "Doe, Ann 22334455 3 AIG -": reading only
LineDoeAnn ==
  <<"D","o","e",","," ","A","n","n"," ","2","2","3","3","4","4","5","5"," ","3"," ","A",
    "I","G"," ","-">>

PdfLineSetRun == {LineSmith, LineSmithNone, LineHeader, LineNguyen, LineDoeAnn}

\* "Smith, John"
CellSmithJohn ==
  <<"S","m","i","t","h",","," ","J","o","h","n">>

\* "smith,  john"
CellSmithJohnLower ==
  <<"s","m","i","t","h",","," "," ","j","o","h","n">>

\* "Doe John"
CellDoeJohn ==
  <<"D","o","e"," ","J","o","h","n">>

\* "Cher"
CellCher ==
  <<"C","h","e","r">>

\* "td"
CellTdLower ==
  <<"t","d">>

\* "Smith"
CellSmith ==
  <<"S","m","i","t","h">>

\* " John"
CellJohn ==
  <<" ","J","o","h","n">>

\* "Doe"
CellDoe ==
  <<"D","o","e">>

\* "Ann"
CellAnn ==
  <<"A","n","n">>

\* "Nguyen"
CellNguyen ==
  <<"N","g","u","y","e","n">>

\* "Alex"
CellAlex ==
  <<"A","l","e","x">>

\* "LastName"
CellLastHeader ==
  <<"L","a","s","t","N","a","m","e">>

\* "FirstName"
CellFirstHeader ==
  <<"F","i","r","s","t","N","a","m","e">>

\* "Hall 3rd grade T2"
CellMeta ==
  <<"H","a","l","l"," ","3","r","d"," ","g","r","a","d","e"," ","T","2">>

\* "Gaps Grade 4"
CellMetaGaps ==
  <<"G","a","p","s"," ","G","r","a","d","e"," ","4">>

\* the rows a Word table is drawn from when the extraction is examined
WordRowSet ==
  {<<CellSmithJohn, Dash, Dash>>, <<CellSmithJohnLower, AIG, Dash>>,
   <<CellDoeJohn, TD, Dash>>, <<CellCher, Dash, CellTdLower>>,
   <<NaN, TD, TD>>, <<CellDoe, TD>>}

\* the rows a Word table is drawn from when the whole run is examined
WordRowSetRun == {<<CellSmithJohn, Dash, TD>>, <<CellDoeJohn, TD, Dash>>}

SheetHall ==
  [title |-> "Hall",
   rows |-> << <<CellMeta, NaN>>, <<CellLastHeader, CellFirstHeader>>,
               <<CellSmith, CellJohn>>, <<CellDoe, CellAnn>> >>]

SheetGaps ==
  [title |-> "Gaps",
   rows |-> << <<CellMetaGaps, NaN>>, <<CellLastHeader, CellFirstHeader>>,
               <<NaN, NaN>>, <<CellDoe, NaN>>, <<CellSmith, CellJohn>>,
               <<CellNguyen, CellAlex>>, <<CellSmith, CellFirstHeader>> >>]

SheetEmpty ==
  [title |-> "Empty",
   rows |-> << <<CellMeta, NaN>>, <<CellLastHeader, CellFirstHeader>> >>]

\* the workbooks a run is given
\* a sheet whose only body row has no first name
SheetBlank ==
  [title |-> "Blank",
   rows |-> << <<CellMeta, NaN>>, <<CellLastHeader, CellFirstHeader>>, <<CellDoe, NaN>> >>]

WorkbookSet ==
  {<<SheetHall>>, <<SheetEmpty>>, <<SheetEmpty, SheetGaps>>, <<SheetGaps, SheetHall>>,
   <<SheetBlank>>}

\* the sequences over S of length at most n
SeqUpTo(S, n) == UNION {[1..k -> S] : k \in 0..n}

(***************************************************************************)
(* State.                                                                  *)
(***************************************************************************)
VARIABLES
  pdf_ok,               \* whether the PDF file can be opened and read
  pdf_text,             \* the lines of the text extracted from the PDF
  word_state,           \* "none" (no path), "missing", "unreadable" or "ok"
  word_rows,            \* the rows after the header row of the Word tables
  excel_ok,             \* whether the spreadsheet can be read
  workbook,             \* the sheets of the spreadsheet
  student_details,      \* self.student_details
  aig_students,         \* self.aig_students
  students_in_sources,  \* self.students_in_sources
  students_in_excel,    \* self.students_in_excel
  stats,                \* self.stats
  pc,                   \* the position of process()
  calls,                \* the number of calls of process() on the instance
  pdf_i,                \* the next line of pdf_text
  word_i,               \* the next row of word_rows
  sheet_i,              \* the current sheet of the workbook
  row_i,                \* the next row of the current sheet's student data
  wb,                   \* the output workbook being built
  wb_aig_only,          \* the AIG-only output workbook being built
  written,              \* the output files written by the current call
  log,                  \* the log records emitted by the current call
  reports,              \* the statistics printed so far, one per completed call
  wb_missing,           \* the student rows of the missing-students workbook
  norm_x,               \* a string given to _normalize_name
  norm_out,             \* the results of normalizing it once and twice
  gui,                  \* the fields and widgets of the AIGProcessorGUI object
  worker,               \* the position of the thread running run_processing
  after_queue,          \* the callbacks given to root.after(0, ...) and not yet run
  threads,              \* the number of worker threads started and not yet ended
  batch_files,          \* the PDF, Excel and Word files find_files() returns
  batch_pair,           \* the position of the loops of batch_process()
  batch_log             \* the records batch_process() logged, in order

vars ==
  <<pdf_ok, pdf_text, word_state, word_rows, excel_ok, workbook, student_details,
    aig_students, students_in_sources, students_in_excel, stats, pc, calls, pdf_i,
    word_i, sheet_i, row_i, wb, wb_aig_only, written, log, reports, wb_missing,
    norm_x, norm_out, gui, worker, after_queue, threads, batch_files, batch_pair,
    batch_log>>

inputs == <<pdf_ok, pdf_text, word_state, word_rows, excel_ok, workbook>>

norm_vars == <<norm_x, norm_out>>

gui_vars == <<gui, worker, after_queue, threads>>

batch_vars == <<batch_files, batch_pair, batch_log>>

Self ==
  [student_details |-> student_details, aig_students |-> aig_students,
   students_in_sources |-> students_in_sources,
   students_in_excel |-> students_in_excel, stats |-> stats]

\* the attributes after a step are those of the record s
SetSelf(s) ==
  /\ student_details' = s.student_details
  /\ aig_students' = s.aig_students
  /\ students_in_sources' = s.students_in_sources
  /\ students_in_excel' = s.students_in_excel
  /\ stats' = s.stats

attributes ==
  <<student_details, aig_students, students_in_sources, students_in_excel, stats>>

\* the attributes as __init__ leaves them
NewSelf ==
  [student_details |-> NoDetails,
   aig_students |-> [math |-> {}, reading |-> {}],
   students_in_sources |-> {},
   students_in_excel |-> {},
   stats |-> [total_students |-> 0, aig_math_only |-> 0, aig_reading_only |-> 0,
              aig_both |-> 0, aig_none |-> 0, td_only_students |-> {}]]

OutputFile == "updated_class_lists.xlsx"

AigOnlyFile == "updated_class_lists_AIG_Only.xlsx"

MissingStudentsFile == "students_not_in_excel.xlsx"

MarkdownFile == "aig_statistics_report.md"

\* log records: a level and the words of the message
MsgStart == [level |-> "INFO", words |-> <<"Starting", "AIG", "Class", "List", "Processing">>]

MsgPdfError == [level |-> "ERROR", words |-> <<"Error", "reading", "PDF", "file">>]

MsgWordSkipped ==
  [level |-> "INFO",
   words |-> <<"No", "Word", "document", "provided", "or", "file", "not", "found",
               "skipping", "Word", "processing">>]

MsgWordError == [level |-> "ERROR", words |-> <<"Error", "reading", "Word", "document">>]

MsgColorWarning ==
  [level |-> "WARNING",
   words |-> <<"Could", "not", "load", "original", "workbook", "for", "color",
               "preservation">>]

MsgMarkdownError ==
  [level |-> "ERROR", words |-> <<"Error", "saving", "markdown", "file">>]

MsgProcessingError == [level |-> "ERROR", words |-> <<"Error", "during", "processing">>]

MsgGradeMismatch == [level |-> "DEBUG", words |-> <<"Grade", "mismatch", "for">>]

MsgCompleted ==
  [level |-> "INFO", words |-> <<"Processing", "completed", "successfully">>]

\* the except clause of process(): log the error and re-raise
Raise(records) ==
  /\ log' = log \cup records \cup {MsgProcessingError}
  /\ pc' = "raised"

(***************************************************************************)
(* The files the front-end and batch mode are pointed at.                  *)
(***************************************************************************)
\* the paths of files that exist
PdfPaths == {"roster.pdf", "roster2.pdf", "scan.pdf"}

ExcelPaths == {"classes.xlsx", "gaps.xlsx", "locked.xlsx"}

WordPaths == {"extra.docx", "broken.docx"}

\* a path at which there is no file
GonePath == "gone"

\* no path: the empty entry of the front-end, None for the processor
NoPath == ""

\* os.path.exists(path)
Exists(path) == path \in PdfPaths \cup ExcelPaths \cup WordPaths

\* the text of the pages of the PDF at a path that can be read
PdfTextOf(path) ==
  IF path = "roster.pdf" THEN <<LineSmith>>
  ELSE IF path = "roster2.pdf" THEN <<LineNguyen>>
  ELSE <<>>

PdfReadable(path) == path \in {"roster.pdf", "roster2.pdf"}

\* the sheets of the spreadsheet at a path that can be read
WorkbookOf(path) ==
  IF path = "classes.xlsx" THEN <<SheetEmpty, SheetHall>>
  ELSE IF path = "gaps.xlsx" THEN <<SheetGaps>>
  ELSE <<>>

ExcelReadable(path) == path \in {"classes.xlsx", "gaps.xlsx"}

\* the table rows of the Word document at a path that can be read
WordRowsOf(path) == IF path = "extra.docx" THEN << <<CellDoeJohn, TD, Dash>> >> ELSE <<>>

WordStateOf(path) ==
  IF path = NoPath THEN "none"
  ELSE IF ~Exists(path) THEN "missing"
  ELSE IF path = "extra.docx" THEN "ok"
  ELSE "unreadable"

(***************************************************************************)
(* Initial states: a new instance and its input files.                     *)
(***************************************************************************)
\* AIGProcessorGUI.__init__ and setup_ui
NewGui ==
  [pdf_file |-> NoPath, excel_file |-> NoPath, word_file |-> NoPath,
   processing_success |-> FALSE,
   process_button |-> [state |-> "normal", shown |-> TRUE],
   completion_frame |-> FALSE,
   progress |-> FALSE,
   root |-> "open"]

\* no front-end is running
NoFrontEnd ==
  /\ gui = NewGui
  /\ worker = "none"
  /\ after_queue = <<>>
  /\ threads = 0

\* batch mode is not running
NoBatch ==
  /\ batch_files = [pdf |-> <<>>, excel |-> <<>>, word |-> <<>>]
  /\ batch_pair = [at |-> "off", pdf |-> 1, excel |-> 1]
  /\ batch_log = <<>>

InitInstance ==
  /\ student_details = NewSelf.student_details
  /\ aig_students = NewSelf.aig_students
  /\ students_in_sources = NewSelf.students_in_sources
  /\ students_in_excel = NewSelf.students_in_excel
  /\ stats = NewSelf.stats
  /\ pc = "idle"
  /\ calls = 0
  /\ pdf_i = 1
  /\ word_i = 1
  /\ sheet_i = 1
  /\ row_i = 1
  /\ wb = <<>>
  /\ wb_aig_only = <<>>
  /\ written = {}
  /\ log = {}
  /\ reports = <<>>
  /\ wb_missing = <<>>

InitInputs(lines, rows, workbooks) ==
  /\ pdf_ok \in BOOLEAN
  /\ pdf_text \in (IF pdf_ok THEN SeqUpTo(lines, MaxPdfLines) ELSE {<<>>})
  /\ word_state \in {"none", "missing", "unreadable", "ok"}
  /\ word_rows \in (IF word_state = "ok" THEN SeqUpTo(rows, MaxWordRows) ELSE {<<>>})
  /\ excel_ok \in BOOLEAN
  /\ workbook \in (IF excel_ok THEN workbooks ELSE {<<>>})

Init ==
  /\ InitInputs(PdfLineSetRun, WordRowSetRun, WorkbookSet)
  /\ InitInstance
  /\ norm_x = <<>>
  /\ norm_out = <<>>
  /\ NoFrontEnd
  /\ NoBatch

InitExtract ==
  /\ InitInputs(PdfLineSet, WordRowSet, {<<SheetHall>>})
  /\ excel_ok
  /\ InitInstance
  /\ norm_x = <<>>
  /\ norm_out = <<>>
  /\ NoFrontEnd
  /\ NoBatch

(***************************************************************************)
(* process(): one action per step.                                         *)
(***************************************************************************)
Begin ==
  /\ pc' = "pdf_open"
  /\ calls' = calls + 1
  /\ written' = {}
  /\ log' = {MsgStart}
  /\ UNCHANGED <<inputs, attributes, pdf_i, word_i, sheet_i, row_i, wb, wb_aig_only,
                 reports, wb_missing, norm_vars, gui_vars,
                 batch_vars>>

\* process() is called on a new instance
ProcessStart ==
  /\ pc = "idle"
  /\ Begin

\* process() is called again on the same instance
ProcessAgain ==
  /\ pc \in {"done", "raised"}
  /\ calls < MaxCalls
  /\ Begin

\* a PDF failure handled like a Word failure: logged, and the run goes on
PdfOpenSwallowing ==
  /\ pc = "pdf_open"
  /\ IF pdf_ok
     THEN /\ pc' = "pdf_parse"
          /\ pdf_i' = 1
          /\ log' = log
     ELSE /\ log' = log \cup {MsgPdfError}
          /\ pc' = "word_open"
          /\ pdf_i' = pdf_i
  /\ UNCHANGED <<inputs, attributes, calls, word_i, sheet_i, row_i, wb, wb_aig_only,
                 written, reports, wb_missing, norm_vars, gui_vars,
                 batch_vars>>

\* extract_aig_students_from_pdf: open the file and extract the text of its pages
PdfOpen ==
  /\ pc = "pdf_open"
  /\ IF pdf_ok
     THEN /\ pc' = "pdf_parse"
          /\ pdf_i' = 1
          /\ log' = log
     ELSE /\ Raise({MsgPdfError})
          /\ pdf_i' = pdf_i
  /\ UNCHANGED <<inputs, attributes, calls, word_i, sheet_i, row_i, wb, wb_aig_only,
                 written, reports, wb_missing, norm_vars, gui_vars,
                 batch_vars>>

\* _parse_aig_text: one line
PdfLine ==
  /\ pc = "pdf_parse"
  /\ pdf_i <= Len(pdf_text)
  /\ SetSelf(ParsePdfLine(Self, pdf_text[pdf_i]))
  /\ pdf_i' = pdf_i + 1
  /\ UNCHANGED <<inputs, pc, calls, word_i, sheet_i, row_i, wb, wb_aig_only, written,
                 log, reports, wb_missing, norm_vars, gui_vars,
                 batch_vars>>

\* _parse_aig_text returns
PdfDone ==
  /\ pc = "pdf_parse"
  /\ pdf_i > Len(pdf_text)
  /\ pc' = "word_open"
  /\ UNCHANGED <<inputs, attributes, calls, pdf_i, word_i, sheet_i, row_i, wb,
                 wb_aig_only, written, log, reports, wb_missing, norm_vars, gui_vars,
                 batch_vars>>

\* extract_aig_students_from_word: the path check and Document()
WordOpen ==
  /\ pc = "word_open"
  /\ IF word_state \in {"none", "missing"}
     THEN /\ log' = log \cup {MsgWordSkipped}
          /\ pc' = "excel_open"
          /\ word_i' = word_i
     ELSE IF word_state = "unreadable"
     THEN /\ log' = log \cup {MsgWordError}
          /\ pc' = "excel_open"
          /\ word_i' = word_i
     ELSE /\ log' = log
          /\ pc' = "word_rows"
          /\ word_i' = 1
  /\ UNCHANGED <<inputs, attributes, calls, pdf_i, sheet_i, row_i, wb, wb_aig_only,
                 written, reports, wb_missing, norm_vars, gui_vars,
                 batch_vars>>

\* extract_aig_students_from_word: one table row after the header row
WordRow ==
  /\ pc = "word_rows"
  /\ word_i <= Len(word_rows)
  /\ SetSelf(ProcessWordRow(Self, word_rows[word_i]))
  /\ word_i' = word_i + 1
  /\ UNCHANGED <<inputs, pc, calls, pdf_i, sheet_i, row_i, wb, wb_aig_only, written,
                 log, reports, wb_missing, norm_vars, gui_vars,
                 batch_vars>>

\* extract_aig_students_from_word returns
WordDone ==
  /\ pc = "word_rows"
  /\ word_i > Len(word_rows)
  /\ pc' = "excel_open"
  /\ UNCHANGED <<inputs, attributes, calls, pdf_i, word_i, sheet_i, row_i, wb,
                 wb_aig_only, written, log, reports, wb_missing, norm_vars, gui_vars,
                 batch_vars>>

\* update_excel_with_aig_data: load the workbook for its tab colours, then read it
ExcelOpen ==
  /\ pc = "excel_open"
  /\ IF excel_ok
     THEN /\ pc' = "excel_sheet"
          /\ sheet_i' = 1
          /\ wb' = <<>>
          /\ wb_aig_only' = <<>>
          /\ log' = log
     ELSE /\ Raise({MsgColorWarning})
          /\ UNCHANGED <<sheet_i, wb, wb_aig_only>>
  /\ UNCHANGED <<inputs, attributes, calls, pdf_i, word_i, row_i, written, reports, wb_missing,
                 norm_vars, gui_vars,
                 batch_vars>>

\* a sheet with fewer than 3 rows is passed over
ExcelSkipSheet ==
  /\ pc = "excel_sheet"
  /\ sheet_i <= Len(workbook)
  /\ Len(workbook[sheet_i].rows) < 3
  /\ sheet_i' = sheet_i + 1
  /\ UNCHANGED <<inputs, attributes, pc, calls, pdf_i, word_i, row_i, wb, wb_aig_only,
                 written, log, reports, wb_missing, norm_vars, gui_vars,
                 batch_vars>>

\* a worksheet is created in both output workbooks, with the metadata and header rows
ExcelBeginSheet ==
  /\ pc = "excel_sheet"
  /\ sheet_i <= Len(workbook)
  /\ Len(workbook[sheet_i].rows) >= 3
  /\ wb' = Append(wb, NewSheet(workbook[sheet_i].title))
  /\ wb_aig_only' = Append(wb_aig_only, NewSheet(workbook[sheet_i].title))
  /\ row_i' = 1
  /\ pc' = "excel_rows"
  /\ UNCHANGED <<inputs, attributes, calls, pdf_i, word_i, sheet_i, written, log,
                 reports, wb_missing, norm_vars, gui_vars,
                 batch_vars>>

\* one row of the student data of the current sheet
ExcelRow ==
  /\ pc = "excel_rows"
  /\ row_i <= Len(StudentData(workbook[sheet_i]))
  /\ LET row == StudentData(workbook[sheet_i])[row_i]
         classroom_info == _extract_classroom_info(workbook[sheet_i].rows[1])
         full_name == Strip(row[1]) \o <<",", " ">> \o Strip(row[2])
         row_data == RowData(Self, row, classroom_info)
         color == StatusColor(_find_student_in_aig(Self, full_name, classroom_info.grade))
         idx == row_i + 2
         aig_row_idx == 3 + Len(wb_aig_only[Len(wb_aig_only)].rows)
     IN  IF IsStudentRow(row)
         THEN /\ SetSelf(CountStudentRow(Self, row, classroom_info))
              /\ log' = IF GradeMismatch(Self, full_name, classroom_info.grade)
                        THEN log \cup {MsgGradeMismatch} ELSE log
              /\ wb' = [wb EXCEPT ![Len(wb)] = WsFill(WsAppend(@, row_data), idx, color)]
              /\ wb_aig_only' =
                   IF InAigOnly(row_data)
                   THEN [wb_aig_only EXCEPT
                           ![Len(wb_aig_only)] =
                              WsFill(WsAppend(@, row_data), aig_row_idx, color)]
                   ELSE wb_aig_only
         ELSE UNCHANGED <<attributes, wb, wb_aig_only, log>>
  /\ row_i' = row_i + 1
  /\ UNCHANGED <<inputs, pc, calls, pdf_i, word_i, sheet_i, written, reports, wb_missing,
                 norm_vars, gui_vars,
                 batch_vars>>

\* the rows of the current sheet are exhausted
ExcelEndSheet ==
  /\ pc = "excel_rows"
  /\ row_i > Len(StudentData(workbook[sheet_i]))
  /\ sheet_i' = sheet_i + 1
  /\ pc' = "excel_sheet"
  /\ UNCHANGED <<inputs, attributes, calls, pdf_i, word_i, row_i, wb, wb_aig_only,
                 written, log, reports, wb_missing, norm_vars, gui_vars,
                 batch_vars>>

\* wb.save(self.output_file); wb_aig_only.save(self.aig_only_file): each may fail,
\* and the save of a workbook without a sheet fails
ExcelSave ==
  /\ pc = "excel_sheet"
  /\ sheet_i > Len(workbook)
  /\ \E saved \in {0, 1, 2} :
       /\ Len(wb) = 0 => saved = 0
       /\ written' = written \cup (IF saved >= 1 THEN {OutputFile} ELSE {})
                             \cup (IF saved >= 2 THEN {AigOnlyFile} ELSE {})
       /\ IF saved = 2
          THEN pc' = "missing" /\ log' = log
          ELSE Raise({})
  /\ UNCHANGED <<inputs, attributes, calls, pdf_i, word_i, sheet_i, row_i, wb,
                 wb_aig_only, reports, wb_missing, norm_vars, gui_vars,
                 batch_vars>>

\* generate_missing_students_report: no workbook is built when no student is missing
MissingReport ==
  /\ pc = "missing"
  /\ wb_missing' = MissingRows(Self)
  /\ IF students_in_sources \ students_in_excel = {}
     THEN /\ pc' = "stats"
          /\ UNCHANGED <<written, log>>
     ELSE \E saved \in BOOLEAN :
            IF saved
            THEN /\ written' = written \cup {MissingStudentsFile}
                 /\ pc' = "stats"
                 /\ log' = log
            ELSE /\ Raise({})
                 /\ written' = written
  /\ UNCHANGED <<inputs, attributes, calls, pdf_i, word_i, sheet_i, row_i, wb,
                 wb_aig_only, reports, norm_vars, gui_vars,
                 batch_vars>>

\* (num / den) * 100 as the format :.1f shows it, in tenths of a percent; the figure
\* is 0 when the denominator is 0
OneDecimal(num, den) ==
  IF den = 0 THEN 0
  ELSE LET q == (num * 1000) \div den
           r == (num * 1000) % den
       IN  IF 2 * r > den \/ (2 * r = den /\ q % 2 = 1) THEN q + 1 ELSE q

\* the figures print_statistics prints
Statistics(self) ==
  [total_students |-> self.stats.total_students,
   total_aig |-> self.stats.aig_math_only + self.stats.aig_reading_only
                   + self.stats.aig_both,
   aig_math_only |-> self.stats.aig_math_only,
   aig_reading_only |-> self.stats.aig_reading_only,
   aig_both |-> self.stats.aig_both,
   aig_none |-> self.stats.aig_none,
   td_only |-> Cardinality(self.stats.td_only_students),
   in_sources |-> Cardinality(self.students_in_sources),
   in_excel |-> Cardinality(self.students_in_excel),
   missing_count |-> Cardinality(self.students_in_sources \ self.students_in_excel),
   aig_percentage |-> OneDecimal(self.stats.aig_math_only + self.stats.aig_reading_only
                                   + self.stats.aig_both,
                                 self.stats.total_students),
   td_percentage |-> OneDecimal(Cardinality(self.stats.td_only_students),
                                self.stats.total_students),
   match_percentage |-> OneDecimal(Cardinality(self.students_in_excel),
                                   Cardinality(self.students_in_sources))]

\* print_statistics and save_statistics_to_markdown, then process() returns
PrintStatistics ==
  /\ pc = "stats"
  /\ reports' = Append(reports, Statistics(Self))
  /\ \E saved \in BOOLEAN :
       IF saved
       THEN /\ written' = written \cup {MarkdownFile}
            /\ log' = log \cup {MsgCompleted}
       ELSE /\ written' = written
            /\ log' = log \cup {MsgMarkdownError, MsgCompleted}
  /\ pc' = "done"
  /\ UNCHANGED <<inputs, attributes, calls, pdf_i, word_i, sheet_i, row_i, wb,
                 wb_aig_only, wb_missing, norm_vars, gui_vars,
                 batch_vars>>

(***************************************************************************)
(* _normalize_name applied to a string, and to its own result.             *)
(***************************************************************************)
\* the characters a string given to _normalize_name is drawn from
NormChars == {"a", "B", " ", ",", "j_caron"}

InitNorm ==
  /\ pdf_ok = FALSE
  /\ pdf_text = <<>>
  /\ word_state = "none"
  /\ word_rows = <<>>
  /\ excel_ok = FALSE
  /\ workbook = <<>>
  /\ InitInstance
  /\ norm_x \in SeqUpTo(NormChars, MaxNameLen)
  /\ norm_out = <<>>
  /\ NoFrontEnd
  /\ NoBatch

NormalizeOnce ==
  /\ Len(norm_out) = 0
  /\ norm_out' = <<_normalize_name(norm_x)>>
  /\ UNCHANGED <<inputs, attributes, pc, calls, pdf_i, word_i, sheet_i, row_i, wb,
                 wb_aig_only, written, log, reports, wb_missing, norm_x,
                 gui_vars, batch_vars>>

NormalizeAgain ==
  /\ Len(norm_out) = 1
  /\ norm_out' = Append(norm_out, _normalize_name(norm_out[1]))
  /\ UNCHANGED <<inputs, attributes, pc, calls, pdf_i, word_i, sheet_i, row_i, wb,
                 wb_aig_only, written, log, reports, wb_missing, norm_x,
                 gui_vars, batch_vars>>

(***************************************************************************)
(* Specifications.                                                         *)
(***************************************************************************)
NextExtract ==
  \/ ProcessStart
  \/ PdfOpen
  \/ PdfLine
  \/ PdfDone
  \/ WordOpen
  \/ WordRow
  \/ WordDone

Next ==
  \/ NextExtract
  \/ ExcelOpen
  \/ ExcelSkipSheet
  \/ ExcelBeginSheet
  \/ ExcelRow
  \/ ExcelEndSheet
  \/ ExcelSave
  \/ MissingReport
  \/ PrintStatistics

NextRerun ==
  \/ Next
  \/ ProcessAgain

NextNorm ==
  \/ NormalizeOnce
  \/ NormalizeAgain

\* one call of process() on a new instance
Spec == Init /\ [][Next]_vars

\* the extraction steps of one call, over the larger set of source lines and rows
SpecExtract == InitExtract /\ [][NextExtract]_vars

\* calls of process() repeated on one instance over unchanged input files
SpecRerun == Init /\ [][NextRerun]_vars

\* _normalize_name alone
SpecNorm == InitNorm /\ [][NextNorm]_vars

(***************************************************************************)
(* The front-end: AIGProcessorGUI, its worker thread and the Tk main loop. *)
(***************************************************************************)
\* AIGClassListProcessor(pdf, excel, word, output_dir): a new instance over the files
\* at the given paths
Construct(pdf_path, excel_path, word_path) ==
  /\ pdf_ok' = PdfReadable(pdf_path)
  /\ pdf_text' = PdfTextOf(pdf_path)
  /\ word_state' = WordStateOf(word_path)
  /\ word_rows' = WordRowsOf(word_path)
  /\ excel_ok' = ExcelReadable(excel_path)
  /\ workbook' = WorkbookOf(excel_path)
  /\ SetSelf(NewSelf)
  /\ pc' = "idle"
  /\ calls' = 0
  /\ pdf_i' = 1
  /\ word_i' = 1
  /\ sheet_i' = 1
  /\ row_i' = 1
  /\ wb' = <<>>
  /\ wb_aig_only' = <<>>
  /\ written' = {}
  /\ log' = {}
  /\ reports' = <<>>
  /\ wb_missing' = <<>>

instance_vars ==
  <<attributes, pc, calls, pdf_i, word_i, sheet_i, row_i, wb, wb_aig_only, written,
    log, reports, wb_missing>>

validate_inputs(g) ==
  /\ g.pdf_file # NoPath
  /\ g.excel_file # NoPath
  /\ Exists(g.pdf_file)
  /\ Exists(g.excel_file)
  /\ (g.word_file # NoPath => Exists(g.word_file))

\* process_files that leaves the Process button as it is
process_files_button_left(g) == [g EXCEPT !.progress = TRUE]

\* process_files past the validation: the widgets before the thread is started
process_files(g) == [g EXCEPT !.process_button.state = "disabled", !.progress = TRUE]

\* processing_complete that re-enables nothing after a failure
processing_complete_success_only(g) ==
  IF g.processing_success
  THEN [g EXCEPT !.progress = FALSE, !.process_button.shown = FALSE,
                 !.completion_frame = TRUE]
  ELSE [g EXCEPT !.progress = FALSE]

processing_complete(g) ==
  IF g.processing_success
  THEN [g EXCEPT !.progress = FALSE, !.process_button.shown = FALSE,
                 !.completion_frame = TRUE]
  ELSE [g EXCEPT !.progress = FALSE, !.process_button.state = "normal"]

new_process(g) ==
  [g EXCEPT !.completion_frame = FALSE,
            !.process_button = [state |-> "normal", shown |-> TRUE],
            !.processing_success = FALSE]

\* the paths typed into an entry: nothing, or a path at which there is no file
TypedPaths == {NoPath, GonePath}

\* the files the dialogs of the front-end offer
GuiPdfPaths == {"roster.pdf", "scan.pdf"}

GuiExcelPaths == {"classes.xlsx", "locked.xlsx"}

GuiWordPaths == {"extra.docx"}

InitGui ==
  /\ pdf_ok = FALSE
  /\ pdf_text = <<>>
  /\ word_state = "none"
  /\ word_rows = <<>>
  /\ excel_ok = FALSE
  /\ workbook = <<>>
  /\ student_details = NewSelf.student_details
  /\ aig_students = NewSelf.aig_students
  /\ students_in_sources = NewSelf.students_in_sources
  /\ students_in_excel = NewSelf.students_in_excel
  /\ stats = NewSelf.stats
  /\ pc = "no_instance"
  /\ calls = 0
  /\ pdf_i = 1
  /\ word_i = 1
  /\ sheet_i = 1
  /\ row_i = 1
  /\ wb = <<>>
  /\ wb_aig_only = <<>>
  /\ written = {}
  /\ log = {}
  /\ reports = <<>>
  /\ wb_missing = <<>>
  /\ norm_x = <<>>
  /\ norm_out = <<>>
  /\ NoFrontEnd
  /\ NoBatch

\* browse_pdf: a file is chosen in the dialog
browse_pdf ==
  /\ gui.root = "open"
  /\ \E filename \in GuiPdfPaths : gui' = [gui EXCEPT !.pdf_file = filename]
  /\ UNCHANGED <<inputs, instance_vars, norm_vars, worker, after_queue, threads,
                 batch_vars>>

browse_excel ==
  /\ gui.root = "open"
  /\ \E filename \in GuiExcelPaths : gui' = [gui EXCEPT !.excel_file = filename]
  /\ UNCHANGED <<inputs, instance_vars, norm_vars, worker, after_queue, threads,
                 batch_vars>>

browse_word ==
  /\ gui.root = "open"
  /\ \E filename \in GuiWordPaths : gui' = [gui EXCEPT !.word_file = filename]
  /\ UNCHANGED <<inputs, instance_vars, norm_vars, worker, after_queue, threads,
                 batch_vars>>

\* the text of an entry is edited: each entry is bound to its path variable
EditEntry ==
  /\ gui.root = "open"
  /\ \E path \in TypedPaths :
       \/ gui' = [gui EXCEPT !.pdf_file = path]
       \/ gui' = [gui EXCEPT !.excel_file = path]
       \/ gui' = [gui EXCEPT !.word_file = path]
  /\ UNCHANGED <<inputs, instance_vars, norm_vars, worker, after_queue, threads,
                 batch_vars>>

\* the Process button is clicked: process_files runs on the main thread
ClickProcess ==
  /\ gui.root = "open"
  /\ gui.process_button = [state |-> "normal", shown |-> TRUE]
  /\ IF validate_inputs(gui)
     THEN /\ gui' = process_files(gui)
          /\ worker' = "started"
          /\ threads' = threads + 1
     ELSE UNCHANGED <<gui, worker, threads>>
  /\ UNCHANGED <<inputs, instance_vars, norm_vars, after_queue, batch_vars>>

\* run_processing up to processor.process(): the paths are read and the processor is
\* constructed, which fails when the output directory cannot be made
WorkerConstruct ==
  /\ worker = "started"
  /\ \E made \in BOOLEAN :
       IF made
       THEN /\ Construct(gui.pdf_file, gui.excel_file, gui.word_file)
            /\ worker' = "process"
       ELSE /\ worker' = "except"
            /\ UNCHANGED <<inputs, instance_vars>>
  /\ UNCHANGED <<norm_vars, gui, after_queue, threads, batch_vars>>

\* processor.process() returned
WorkerSucceeded ==
  /\ worker = "process"
  /\ pc = "done"
  /\ after_queue' = Append(after_queue, "showinfo")
  /\ gui' = [gui EXCEPT !.processing_success = TRUE]
  /\ worker' = "finally"
  /\ UNCHANGED <<inputs, instance_vars, norm_vars, threads, batch_vars>>

\* processor.process() raised: the except clause of run_processing
WorkerRaised ==
  /\ worker = "process"
  /\ pc = "raised"
  /\ worker' = "except"
  /\ UNCHANGED <<inputs, instance_vars, norm_vars, gui, after_queue, threads, batch_vars>>

WorkerExcept ==
  /\ worker = "except"
  /\ after_queue' = Append(after_queue, "showerror")
  /\ gui' = [gui EXCEPT !.processing_success = FALSE]
  /\ worker' = "finally"
  /\ UNCHANGED <<inputs, instance_vars, norm_vars, threads, batch_vars>>

\* the finally clause of run_processing, after which the thread ends
WorkerFinally ==
  /\ worker = "finally"
  /\ after_queue' = Append(after_queue, "processing_complete")
  /\ worker' = "none"
  /\ threads' = threads - 1
  /\ UNCHANGED <<inputs, instance_vars, norm_vars, gui, batch_vars>>

\* the main loop runs the oldest callback given to root.after: a dialog, which is
\* shown and dismissed, or processing_complete
TkCallback ==
  /\ gui.root = "open"
  /\ after_queue # <<>>
  /\ after_queue' = Tail(after_queue)
  /\ gui' = IF Head(after_queue) = "processing_complete"
            THEN processing_complete(gui)
            ELSE gui
  /\ UNCHANGED <<inputs, instance_vars, norm_vars, worker, threads, batch_vars>>

\* "Process New Files" is clicked
ClickNewProcess ==
  /\ gui.root = "open"
  /\ gui.completion_frame
  /\ gui' = new_process(gui)
  /\ UNCHANGED <<inputs, instance_vars, norm_vars, worker, after_queue, threads,
                 batch_vars>>

\* "Close Application" is clicked: close_application
ClickClose ==
  /\ gui.root = "open"
  /\ gui.completion_frame
  /\ gui' = [gui EXCEPT !.root = "destroyed"]
  /\ UNCHANGED <<inputs, instance_vars, norm_vars, worker, after_queue, threads,
                 batch_vars>>

WorkerStep ==
  \/ WorkerConstruct
  \/ WorkerSucceeded
  \/ WorkerRaised
  \/ WorkerExcept
  \/ WorkerFinally

NextGui ==
  \/ browse_pdf
  \/ browse_excel
  \/ browse_word
  \/ EditEntry
  \/ ClickProcess
  \/ WorkerStep
  \/ Next
  \/ TkCallback
  \/ ClickNewProcess
  \/ ClickClose

\* the loops of process() over the lines of the PDF text, the rows of the Word
\* tables and the rows of a sheet: each goes on to its next line or row
PdfLoop == pc = "pdf_parse" /\ pdf_i <= Len(pdf_text) /\ pdf_i' = pdf_i + 1

WordLoop == pc = "word_rows" /\ word_i <= Len(word_rows) /\ word_i' = word_i + 1

ExcelLoop ==
  /\ pc = "excel_rows"
  /\ row_i <= Len(StudentData(workbook[sheet_i]))
  /\ row_i' = row_i + 1

\* the steps of process() outside those loops
ProcessControl ==
  \/ ProcessStart
  \/ PdfOpen
  \/ PdfDone
  \/ WordOpen
  \/ WordDone
  \/ ExcelOpen
  \/ ExcelSkipSheet
  \/ ExcelBeginSheet
  \/ ExcelEndSheet
  \/ ExcelSave
  \/ MissingReport
  \/ PrintStatistics

\* the front-end: the worker thread is scheduled and process() goes on to its end
\* (every loop of it is over a finite file), and the main loop runs the callbacks it
\* is given (the user dismisses each dialog)
SpecGui ==
  /\ InitGui
  /\ [][NextGui]_vars
  /\ WF_vars(WorkerStep)
  /\ WF_vars(ProcessControl)
  /\ WF_pdf_i(PdfLoop)
  /\ WF_word_i(WordLoop)
  /\ WF_row_i(ExcelLoop)
  /\ WF_vars(TkCallback)

(***************************************************************************)
(* Batch mode: batch_process() over the files find_files() returns.        *)
(***************************************************************************)
\* the sequences over S of length at most n in which no element occurs twice
DistinctSeqUpTo(S, n) ==
  {q \in SeqUpTo(S, n) : \A a, b \in DOMAIN q : q[a] = q[b] => a = b}

MsgNoPdf == [level |-> "ERROR", words |-> <<"No", "PDF", "files", "found">>]

MsgNoExcel == [level |-> "ERROR", words |-> <<"No", "Excel", "files", "found">>]

\* the record logged for a pair once it was processed or raised
PairRecord(raised, pdf_path, excel_path) ==
  [level |-> IF raised THEN "ERROR" ELSE "INFO", pdf |-> pdf_path, excel |-> excel_path]

\* the loops stop at the first pair that raises
AfterPairStopping(raised, p, files) ==
  IF raised THEN [p EXCEPT !.at = "done"]
  ELSE IF p.excel < Len(files.excel) THEN [p EXCEPT !.at = "pair", !.excel = @ + 1]
  ELSE IF p.pdf < Len(files.pdf) THEN [at |-> "pair", pdf |-> p.pdf + 1, excel |-> 1]
  ELSE [p EXCEPT !.at = "done"]

\* the position of the loops after the pair at p, whether it raised or not: the next
\* spreadsheet, then the next PDF with the first spreadsheet
AfterPair(raised, p, files) ==
  IF p.excel < Len(files.excel) THEN [p EXCEPT !.at = "pair", !.excel = @ + 1]
  ELSE IF p.pdf < Len(files.pdf) THEN [at |-> "pair", pdf |-> p.pdf + 1, excel |-> 1]
  ELSE [p EXCEPT !.at = "done"]

\* word_files[0] if word_files else None
BatchWordFile(files) == IF files.word # <<>> THEN files.word[1] ELSE NoPath

InitBatch ==
  /\ pdf_ok = FALSE
  /\ pdf_text = <<>>
  /\ word_state = "none"
  /\ word_rows = <<>>
  /\ excel_ok = FALSE
  /\ workbook = <<>>
  /\ student_details = NewSelf.student_details
  /\ aig_students = NewSelf.aig_students
  /\ students_in_sources = NewSelf.students_in_sources
  /\ students_in_excel = NewSelf.students_in_excel
  /\ stats = NewSelf.stats
  /\ pc = "no_instance"
  /\ calls = 0
  /\ pdf_i = 1
  /\ word_i = 1
  /\ sheet_i = 1
  /\ row_i = 1
  /\ wb = <<>>
  /\ wb_aig_only = <<>>
  /\ written = {}
  /\ log = {}
  /\ reports = <<>>
  /\ wb_missing = <<>>
  /\ norm_x = <<>>
  /\ norm_out = <<>>
  /\ NoFrontEnd
  /\ \E pdfs \in DistinctSeqUpTo(PdfPaths, MaxBatchFiles),
        excels \in DistinctSeqUpTo(ExcelPaths, MaxBatchFiles),
        words \in DistinctSeqUpTo(WordPaths, 1) :
       batch_files = [pdf |-> pdfs, excel |-> excels, word |-> words]
  /\ batch_pair = [at |-> "start", pdf |-> 1, excel |-> 1]
  /\ batch_log = <<>>

\* batch_process up to its loops: it returns when there is no PDF or no spreadsheet
BatchStart ==
  /\ batch_pair.at = "start"
  /\ IF batch_files.pdf = <<>>
     THEN /\ batch_log' = Append(batch_log, MsgNoPdf)
          /\ batch_pair' = [batch_pair EXCEPT !.at = "done"]
     ELSE IF batch_files.excel = <<>>
     THEN /\ batch_log' = Append(batch_log, MsgNoExcel)
          /\ batch_pair' = [batch_pair EXCEPT !.at = "done"]
     ELSE /\ batch_log' = batch_log
          /\ batch_pair' = [batch_pair EXCEPT !.at = "pair"]
  /\ UNCHANGED <<inputs, instance_vars, norm_vars, gui_vars, batch_files>>

\* the try block up to processor.process(): the processor of the pair is constructed,
\* which fails when the output directory of the pair cannot be made
BatchConstruct ==
  /\ batch_pair.at = "pair"
  /\ LET pdf_path == batch_files.pdf[batch_pair.pdf]
         excel_path == batch_files.excel[batch_pair.excel]
     IN  \E made \in BOOLEAN :
           IF made
           THEN /\ Construct(pdf_path, excel_path, BatchWordFile(batch_files))
                /\ batch_pair' = [batch_pair EXCEPT !.at = "running"]
                /\ batch_log' = batch_log
           ELSE /\ batch_log' = Append(batch_log, PairRecord(TRUE, pdf_path, excel_path))
                /\ batch_pair' = AfterPair(TRUE, batch_pair, batch_files)
                /\ UNCHANGED <<inputs, instance_vars>>
  /\ UNCHANGED <<norm_vars, gui_vars, batch_files>>

\* processor.process() returned or raised: the pair is logged and the loops go on
BatchPairDone ==
  /\ batch_pair.at = "running"
  /\ pc \in {"done", "raised"}
  /\ batch_log' = Append(batch_log,
                         PairRecord(pc = "raised", batch_files.pdf[batch_pair.pdf],
                                    batch_files.excel[batch_pair.excel]))
  /\ batch_pair' = AfterPair(pc = "raised", batch_pair, batch_files)
  /\ UNCHANGED <<inputs, instance_vars, norm_vars, gui_vars, batch_files>>

NextBatch ==
  \/ BatchStart
  \/ BatchConstruct
  \/ Next
  \/ BatchPairDone

\* one call of batch_process()
SpecBatch == InitBatch /\ [][NextBatch]_vars

(***************************************************************************)
(* Properties.                                                             *)
(***************************************************************************)
\* the step just taken parsed line pdf_text[pdf_i]
PdfLineStep == pc = "pdf_parse" /\ pdf_i <= Len(pdf_text) /\ pdf_i' = pdf_i + 1

\* the step just taken handled row word_rows[word_i]
WordRowStep == pc = "word_rows" /\ word_i <= Len(word_rows) /\ word_i' = word_i + 1

\* the positions of process() after the Word step of the current call
AfterWord == {"excel_open", "excel_sheet", "excel_rows", "missing", "stats", "done"}

\* C1: whenever a PDF line or a Word row is processed for a normalized name that
\* already has a record, each flag of the record afterwards is the OR of its previous
\* value and the value of the new line, and the map holds the same names as before.
C1_ReencounterMergesByOr ==
  [][/\ PdfLineStep =>
          LET f == PdfLineFields(pdf_text[pdf_i])
          IN  (f.ok /\ f.name \in DOMAIN student_details) =>
                /\ DOMAIN student_details' = DOMAIN student_details
                /\ student_details'[f.name].reading =
                     (student_details[f.name].reading
                        \/ Upper(f.reading_status) \in PdfAigTokens)
                /\ student_details'[f.name].math =
                     (student_details[f.name].math
                        \/ Upper(f.math_status) \in PdfAigTokens)
     /\ WordRowStep =>
          LET cells == word_rows[word_i]
              n == _process_word_name(Strip(cells[1]))
          IN  (Len(cells) >= 3 /\ Strip(cells[1]) # <<>> /\ n \in DOMAIN student_details) =>
                /\ DOMAIN student_details' = DOMAIN student_details
                /\ student_details'[n].reading =
                     (student_details[n].reading
                        \/ Upper(Strip(cells[2])) \in WordAigTokens)
                /\ student_details'[n].math =
                     (student_details[n].math
                        \/ Upper(Strip(cells[3])) \in WordAigTokens)]_vars

\* C2: in every state of the extraction a name is in aig_students.math exactly when
\* student_details holds a record for it whose math flag is true, and likewise for
\* reading.
C2_IndexAgreesWithRecords ==
  LET names == (DOMAIN student_details) \cup aig_students.math \cup aig_students.reading
  IN  \A n \in names :
        /\ n \in aig_students.math <=>
             (n \in DOMAIN student_details /\ student_details[n].math)
        /\ n \in aig_students.reading <=>
             (n \in DOMAIN student_details /\ student_details[n].reading)

\* C3: a Word row never turns a flag of an existing record from true to false nor
\* removes a record, and the Word rows are handled only after every PDF line of the
\* call has been parsed.
C3_WordRowOnlyAddsFlags ==
  /\ [](pc \in {"word_open", "word_rows"} => pdf_i = Len(pdf_text) + 1)
  /\ [][WordRowStep =>
          \A n \in DOMAIN student_details :
            /\ n \in DOMAIN student_details'
            /\ student_details[n].reading => student_details'[n].reading
            /\ student_details[n].math => student_details'[n].math]_vars

\* a Word row whose tokens are not AIG has been merged into a record that the PDF
\* created with a true flag
C3_Witness ==
  /\ pc = "word_rows"
  /\ word_i > 1
  /\ LET cells == word_rows[word_i - 1]
         n == _process_word_name(Strip(cells[1]))
     IN  /\ Len(cells) >= 3
         /\ n \in DOMAIN student_details
         /\ student_details[n].student_id # NA
         /\ student_details[n].reading
         /\ Upper(Strip(cells[2])) \notin WordAigTokens

\* C4: when the PDF or the spreadsheet cannot be read, the step of process() that
\* reads it raises, process() never gets past that step, and no output file has been
\* written by the call.
C4_UnreadableInputWritesNothing ==
  /\ [][/\ (pc = "pdf_open" /\ ~pdf_ok) => pc' = "raised"
        /\ (pc = "excel_open" /\ ~excel_ok) => pc' = "raised"]_vars
  /\ [](/\ ~pdf_ok => pc \in {"idle", "pdf_open", "raised"}
        /\ ~excel_ok =>
             pc \in {"idle", "pdf_open", "pdf_parse", "word_open", "word_rows",
                     "excel_open", "raised"}
        /\ (~pdf_ok \/ ~excel_ok) => written = {})

\* process() has raised on an unreadable spreadsheet after the extraction stored records
C4_Witness ==
  /\ pc = "raised"
  /\ pdf_ok
  /\ ~excel_ok
  /\ students_in_sources # {}
  /\ MsgColorWarning \in log

\* C5: when the Word document is missing or unreadable, process() goes on past the
\* Word step and the log of the call holds a warning that mentions "Word" and
\* "skipping".
C5_MissingWordLogsWarning ==
  (word_state \in {"missing", "unreadable"} /\ pc \in AfterWord) =>
    \E m \in log :
      /\ m.level = "WARNING"
      /\ \E i \in 1..Len(m.words) : m.words[i] = "Word"
      /\ \E i \in 1..Len(m.words) : m.words[i] = "skipping"

\* C6: whenever process() has returned normally, the two class-list workbooks and the
\* markdown report have been written by the call, and so has the missing-students
\* workbook when a source student is in no classroom sheet.
C6_NormalReturnWroteEveryFile ==
  pc = "done" =>
    /\ {OutputFile, AigOnlyFile, MarkdownFile} \subseteq written
    /\ students_in_sources \ students_in_excel # {} => MissingStudentsFile \in written

\* C7: two calls of process() on one instance over unchanged inputs report the same
\* total_students and the same four status counters.
C7_RepeatedCallReportsSameCounts ==
  \A i, j \in 1..Len(reports) :
    /\ reports[i].total_students = reports[j].total_students
    /\ reports[i].aig_both = reports[j].aig_both
    /\ reports[i].aig_math_only = reports[j].aig_math_only
    /\ reports[i].aig_reading_only = reports[j].aig_reading_only
    /\ reports[i].aig_none = reports[j].aig_none

\* the tokens of a line after its first token that contains a comma
C8_DataGroup(raw) ==
  LET parts == Split(Strip(raw))
      c == CHOOSE i \in 1..Len(parts) :
             /\ \E k \in 1..Len(parts[i]) : parts[i][k] = ","
             /\ \A j \in 1..(i - 1) : \A k \in 1..Len(parts[j]) : parts[j][k] # ","
  IN  SubSeq(parts, c + 1, Len(parts))

\* a line discarded as unparseable: no comma, or no numeric token of length >= 8 in
\* the data group, or that token first in the data group, or fewer than 4 tokens
\* from it on
C8_Discarded(raw) ==
  \/ \A k \in 1..Len(raw) : raw[k] # ","
  \/ LET data == C8_DataGroup(raw)
         anchors == {i \in 1..Len(data) :
                       /\ Len(data[i]) >= MinStudentIdLen
                       /\ \A k \in 1..Len(data[i]) : data[i][k] \in Digits}
     IN  \/ anchors = {}
         \/ LET a == CHOOSE i \in anchors : \A j \in anchors : i <= j
            IN  a = 1 \/ Len(data) - a + 1 < 4

RECURSIVE C8_ParseAll(_, _, _)
C8_ParseAll(self, text, i) ==
  IF i > Len(text) THEN self ELSE C8_ParseAll(ParsePdfLine(self, text[i]), text, i + 1)

\* C8: the step that handles a discarded PDF line changes no attribute and does not
\* end the parsing, and once the text is parsed the attributes are those that the
\* text without its discarded lines gives.
C8_DiscardedLineChangesNothing ==
  /\ [][(PdfLineStep /\ C8_Discarded(pdf_text[pdf_i])) =>
          (UNCHANGED attributes /\ pc' = "pdf_parse")]_vars
  /\ [](pc = "word_open" =>
          Self = C8_ParseAll(NewSelf,
                             SelectSeq(pdf_text, LAMBDA l : ~C8_Discarded(l)), 1))

\* a discarded line has been handled after a line that stored a record
C8_Witness ==
  /\ pc = "pdf_parse"
  /\ pdf_i = 3
  /\ ~C8_Discarded(pdf_text[1])
  /\ C8_Discarded(pdf_text[2])
  /\ Cardinality(DOMAIN student_details) = 1

\* C9: parsing a valid PDF line a second time, right after the first, changes neither
\* the record map nor the index sets, the seen-in-source set or the TD-only set.
C9_ParsingTwiceIsParsingOnce ==
  [][(/\ PdfLineStep
      /\ pdf_i > 1
      /\ pdf_text[pdf_i] = pdf_text[pdf_i - 1]
      /\ PdfLineFields(pdf_text[pdf_i]).ok) => UNCHANGED attributes]_vars

\* a valid line with a true flag has been parsed twice in a row
C9_Witness ==
  /\ pc = "pdf_parse"
  /\ pdf_i = 3
  /\ pdf_text[1] = pdf_text[2]
  /\ PdfLineFields(pdf_text[2]).ok
  /\ student_details[PdfLineFields(pdf_text[2]).name].reading

\* C10: normalizing the result of _normalize_name gives that result again.
C10_NormalizeIsIdempotent ==
  Len(norm_out) = 2 => norm_out[2] = norm_out[1]

\* the data tokens of a line from the anchor on: the anchor is the first token of the
\* data group made of digits only and at least 8 characters long
C11_FromAnchor(raw) ==
  LET data == C8_DataGroup(raw)
      a == CHOOSE i \in 1..Len(data) :
             /\ Len(data[i]) >= 8
             /\ \A k \in 1..Len(data[i]) : data[i][k] \in Digits
             /\ \A j \in 1..(i - 1) :
                  \/ Len(data[j]) < 8
                  \/ \E k \in 1..Len(data[j]) : data[j][k] \notin Digits
  IN  [before |-> SubSeq(data, 1, a - 1), from |-> SubSeq(data, a, Len(data))]

\* the record that a well-formed line describes
C11_Record(raw) ==
  LET parts == Split(Strip(raw))
      data == C8_DataGroup(raw)
      split == C11_FromAnchor(raw)
      name_tokens == SubSeq(parts, 1, Len(parts) - Len(data)) \o split.before
  IN  [name |-> _normalize_name(Join(name_tokens, Sp)),
       student_id |-> split.from[1],
       grade |-> split.from[2],
       reading |-> Upper(split.from[3]) \in {TD, AG, IG, AIG},
       math |-> Upper(split.from[4]) \in {TD, AG, IG, AIG}]

\* a line that is neither blank, nor a roster header, nor discarded as unparseable
C11_WellFormed(raw) ==
  /\ Strip(raw) # <<>>
  /\ ~Contains(raw, HeaderColumns)
  /\ ~Contains(raw, HeaderRoster)
  /\ ~C8_Discarded(raw)

\* C11: the step that parses a well-formed PDF line stores, under the name made of
\* the tokens up to the first one with a comma and the data tokens before the anchor,
\* the record whose student id, grade, reading token and math token are the anchor and
\* the three tokens after it, each flag true iff its token is one of TD, AG, IG, AIG
\* whatever its case; "Smith, John 123456789 3 AIG TD" stores the record
\* {"Smith, John", "123456789", "3", reading true, math true}.
C11_WellFormedLineStoresItsFields ==
  [][(PdfLineStep /\ C11_WellFormed(pdf_text[pdf_i])) =>
       LET e == C11_Record(pdf_text[pdf_i])
       IN  /\ e.name \in DOMAIN student_details'
           /\ student_details'[e.name] = e
           /\ pdf_text[pdf_i] = LineSmith =>
                 e = [name |-> CellSmithJohn,
                      student_id |-> <<"1","2","3","4","5","6","7","8","9">>,
                      grade |-> <<"3">>, reading |-> TRUE, math |-> TRUE]]_vars

\* "Smith, John 123456789 3 AIG TD" has just been parsed and its record is stored
C11_Witness ==
  /\ pc = "pdf_parse"
  /\ pdf_i = 2
  /\ pdf_text[1] = LineSmith
  /\ CellSmithJohn \in DOMAIN student_details
  /\ student_details[CellSmithJohn].math

\* "Doe, John"
C12_DoeJohn == <<"D","o","e",","," ","J","o","h","n">>

\* "John, Doe"
C12_JohnDoe == <<"J","o","h","n",","," ","D","o","e">>

\* the Word table row ("Doe John", "TD", "-")
C12_Row == <<CellDoeJohn, TD, Dash>>

\* C12 as stated: the step that handles the Word row ("Doe John", "TD", "-") stores it
\* under the name "Doe, John" with reading true and math false.
C12_DoeJohnStoredAsDoeJohn ==
  [][(WordRowStep /\ word_rows[word_i] = C12_Row) =>
       /\ C12_DoeJohn \in DOMAIN student_details'
       /\ student_details'[C12_DoeJohn].reading
       /\ ~student_details'[C12_DoeJohn].math]_vars

\* C12 amended: a Word name cell of two or more tokens without a comma is read as the
\* first name followed by the last name, and the row is stored under the normalized
\* "Last, First" name made of the remaining tokens, a comma and the first token; the row
\* ("Doe John", "TD", "-") is stored under "John, Doe" and not under "Doe, John", with
\* reading true and, for a name not seen before, math false.
C12_FirstTokenIsFirstName ==
  [][(/\ WordRowStep
      /\ Len(word_rows[word_i]) >= 3
      /\ \A k \in 1..Len(word_rows[word_i][1]) : word_rows[word_i][1][k] # ","
      /\ Len(Split(word_rows[word_i][1])) >= 2) =>
       LET tokens == Split(word_rows[word_i][1])
           key == _normalize_name(Join(SubSeq(tokens, 2, Len(tokens)), Sp)
                                  \o <<",", " ">> \o tokens[1])
       IN  /\ key \in DOMAIN student_details'
           /\ DOMAIN student_details' = DOMAIN student_details \cup {key}
           /\ word_rows[word_i] = C12_Row =>
                /\ key = C12_JohnDoe
                /\ student_details'[key].reading
                /\ key \notin DOMAIN student_details => ~student_details'[key].math]_vars

\* the row ("Doe John", "TD", "-") has been handled and its record is stored
C12_Witness ==
  /\ pc = "word_rows"
  /\ word_i = 2
  /\ word_rows[1] = C12_Row
  /\ C12_JohnDoe \in DOMAIN student_details
  /\ student_details[C12_JohnDoe].reading
  /\ ~student_details[C12_JohnDoe].math

\* the step just taken passed over sheet workbook[sheet_i], which has fewer than 3 rows
C13_SkipStep ==
  /\ pc = "excel_sheet"
  /\ sheet_i <= Len(workbook)
  /\ Len(workbook[sheet_i].rows) < 3
  /\ sheet_i' = sheet_i + 1

\* every sheet of the input workbook has fewer than 3 rows
C13_EverySheetShort == \A k \in 1..Len(workbook) : Len(workbook[k].rows) < 3

\* C13: the step that skips a classroom sheet with fewer than 3 rows changes no counter
\* and no set, adds no sheet and no row to either output workbook and raises no error;
\* and once the sheets of a workbook in which every sheet has fewer than 3 rows are
\* passed over, the two output workbooks can be saved without an error.
C13_ShortSheetSkippedWithoutError ==
  /\ [][C13_SkipStep =>
          (UNCHANGED <<attributes, wb, wb_aig_only, log>> /\ pc' = "excel_sheet")]_vars
  /\ []((pc = "excel_sheet" /\ sheet_i > Len(workbook) /\ C13_EverySheetShort) =>
          ENABLED (ExcelSave /\ pc' = "missing"))

\* the header tokens of the two name columns
C14_HeaderTokens ==
  {LASTNAME, LAST, <<"F","I","R","S","T","N","A","M","E">>, <<"F","I","R","S","T">>}

\* a valid student row: neither name field is empty or a header token
C14_ValidRow(row) ==
  /\ Strip(row[1]) # <<>>
  /\ Strip(row[2]) # <<>>
  /\ Upper(Strip(row[1])) \notin C14_HeaderTokens
  /\ Upper(Strip(row[2])) \notin C14_HeaderTokens

\* the positions of the valid student rows of a sheet
C14_ValidRows(sheet) == {i \in 3..Len(sheet.rows) : C14_ValidRow(sheet.rows[i])}

\* the name of a row matches a source record directly or by the fuzzy fallback
C14_Matches(row) ==
  LET n == _normalize_name(Strip(row[1]) \o <<",", " ">> \o Strip(row[2]))
  IN  \/ n \in DOMAIN student_details
      \/ \E a \in aig_students.math \cup aig_students.reading : _names_match(n, a)

\* the input sheets with at least 3 rows, in order
C14_Processed == SelectSeq(workbook, LAMBDA sheet : Len(sheet.rows) >= 3)

\* C14: once the sheets of a workbook none of whose valid student rows matches a source
\* record are reconciled, every processed sheet with N valid student rows has N output
\* rows, all labelled "None", aig_none and total_students are the sum of the N, and
\* aig_both, aig_math_only and aig_reading_only are 0.
C14_UnmatchedSheetIsAllNone ==
  (/\ pc \in {"missing", "stats", "done"}
   /\ \A k \in 1..Len(workbook) :
        \A i \in C14_ValidRows(workbook[k]) : ~C14_Matches(workbook[k].rows[i])) =>
    LET total == Cardinality(UNION {{k} \X C14_ValidRows(workbook[k]) :
                                      k \in {j \in 1..Len(workbook) :
                                               Len(workbook[j].rows) >= 3}})
    IN  /\ Len(wb) = Len(C14_Processed)
        /\ \A k \in 1..Len(wb) :
             /\ Len(wb[k].rows) = Cardinality(C14_ValidRows(C14_Processed[k]))
             /\ \A i \in 1..Len(wb[k].rows) : wb[k].rows[i].status = "None"
        /\ stats.total_students = total
        /\ stats.aig_none = total
        /\ stats.aig_both = 0
        /\ stats.aig_math_only = 0
        /\ stats.aig_reading_only = 0

\* the step just taken handled row row_i of the student data of the current sheet
ExcelRowStep ==
  /\ pc = "excel_rows"
  /\ row_i <= Len(StudentData(workbook[sheet_i]))
  /\ row_i' = row_i + 1

\* "Nguyen, Alexander"
C15_NguyenAlexander ==
  <<"N","g","u","y","e","n",","," ","A","l","e","x","a","n","d","e","r">>

\* the tokens of a name after its commas are removed
C15_Tokens(name) == Split(SelectSeq(name, LAMBDA c : c # ","))

\* one string is the beginning of the other
C15_Prefix(s, t) ==
  \/ Len(s) <= Len(t) /\ SubSeq(t, 1, Len(s)) = s
  \/ Len(t) <= Len(s) /\ SubSeq(s, 1, Len(t)) = t

\* two names match fuzzily: both have two or more tokens, the first tokens are equal
\* whatever their case, and the second tokens are equal or one begins the other
C15_Fuzzy(n, a) ==
  /\ Len(C15_Tokens(n)) >= 2
  /\ Len(C15_Tokens(a)) >= 2
  /\ Lower(C15_Tokens(n)[1]) = Lower(C15_Tokens(a)[1])
  /\ C15_Prefix(Lower(C15_Tokens(n)[2]), Lower(C15_Tokens(a)[2]))

\* C15: the step that counts a classroom row whose normalized name has no entry in the
\* record map writes math true iff a name of the math index equals the name or matches
\* it fuzzily, and reading true iff a name of the reading index does; with
\* "Nguyen, Alexander" in the math index only, the row ("Nguyen", "Alex") gets math true
\* and reading false.
C15_FallbackResolvesEachSubject ==
  [][(/\ ExcelRowStep
      /\ Len(wb'[Len(wb')].rows) = Len(wb[Len(wb)].rows) + 1
      /\ LET row == StudentData(workbook[sheet_i])[row_i]
         IN  _normalize_name(Strip(row[1]) \o <<",", " ">> \o Strip(row[2]))
               \notin DOMAIN student_details) =>
       LET row == StudentData(workbook[sheet_i])[row_i]
           n == _normalize_name(Strip(row[1]) \o <<",", " ">> \o Strip(row[2]))
           out == wb'[Len(wb')].rows[Len(wb'[Len(wb')].rows)]
       IN  /\ out.math = (\E a \in aig_students.math : a = n \/ C15_Fuzzy(n, a))
           /\ out.reading = (\E a \in aig_students.reading : a = n \/ C15_Fuzzy(n, a))
           /\ (/\ row = <<CellNguyen, CellAlex>>
               /\ C15_NguyenAlexander \in aig_students.math
               /\ C15_NguyenAlexander \notin aig_students.reading) =>
                (out.math /\ ~out.reading)]_vars

\* the row ("Nguyen", "Alex") has been written as math only, by the fallback, with
\* "Nguyen, Alexander" in the math index only
C15_Witness ==
  /\ pc = "excel_rows"
  /\ Len(wb) > 0
  /\ Len(wb[Len(wb)].rows) > 0
  /\ LET out == wb[Len(wb)].rows[Len(wb[Len(wb)].rows)]
     IN  /\ out.lastname = CellNguyen
         /\ out.firstname = CellAlex
         /\ out.math
         /\ ~out.reading
  /\ C15_NguyenAlexander \in aig_students.math
  /\ C15_NguyenAlexander \notin aig_students.reading
  /\ (CellNguyen \o <<",", " ">> \o CellAlex) \notin DOMAIN student_details

\* C16: the two output workbooks have one sheet for each input sheet with at least 3
\* rows handled so far, in the order of the input workbook, and each sheet of the
\* AIG-only workbook holds exactly the rows of the same sheet of the main workbook whose
\* status is not "None", in the same order.
C16_AigOnlyIsMainWithoutNone ==
  pc \in {"excel_sheet", "excel_rows", "missing", "stats", "done"} =>
    LET seen == IF pc \in {"excel_sheet", "excel_rows"}
                THEN SubSeq(workbook, 1, IF pc = "excel_rows" THEN sheet_i
                                         ELSE sheet_i - 1)
                ELSE workbook
        titles == SelectSeq(seen, LAMBDA sheet : Len(sheet.rows) >= 3)
    IN  /\ Len(wb) = Len(titles)
        /\ Len(wb_aig_only) = Len(titles)
        /\ \A k \in 1..Len(titles) :
             /\ wb[k].title = titles[k].title
             /\ wb_aig_only[k].title = titles[k].title
             /\ wb_aig_only[k].rows =
                  SelectSeq(wb[k].rows, LAMBDA r : r.status # "None")

\* both workbooks are complete, and a sheet of the main workbook has a row labelled
\* "None" and a later row that is also in the AIG-only workbook
C16_Witness ==
  /\ pc = "missing"
  /\ Len(wb) = 2
  /\ wb[1].title # wb[2].title
  /\ \E k \in 1..Len(wb) :
       /\ Len(wb_aig_only[k].rows) >= 1
       /\ \E i, j \in 1..Len(wb[k].rows) :
            i < j /\ wb[k].rows[i].status = "None" /\ wb[k].rows[j].status # "None"

\* C17: once the missing-students report is generated, its rows list exactly the names
\* seen in a source and not in a classroom sheet, one row each, in ascending order of
\* name, each with source "PDF" when its record has a real student id and
\* "Word Document" otherwise, and the missing count of the statistics report is the
\* number of rows.
C17_MissingRowsAreSourcesMinusExcel ==
  pc \in {"stats", "done"} =>
    /\ {wb_missing[i].name : i \in 1..Len(wb_missing)}
         = students_in_sources \ students_in_excel
    /\ Len(wb_missing) = Cardinality(students_in_sources \ students_in_excel)
    /\ \A i \in 1..(Len(wb_missing) - 1) :
         StrLess(wb_missing[i].name, wb_missing[i + 1].name)
    /\ \A i \in 1..Len(wb_missing) :
         /\ wb_missing[i].student_id = student_details[wb_missing[i].name].student_id
         /\ wb_missing[i].source =
              IF \A k \in 1..Len(wb_missing[i].student_id) :
                   wb_missing[i].student_id[k] \in Digits
              THEN "PDF" ELSE "Word Document"
    /\ pc = "done" => reports[Len(reports)].missing_count = Len(wb_missing)

\* the report lists a student of the Word table before a student of the PDF roster
C17_Witness ==
  /\ pc = "done"
  /\ Len(wb_missing) >= 2
  /\ wb_missing[1].source = "Word Document"
  /\ wb_missing[2].source = "PDF"
  /\ students_in_excel # {}

\* C18: the match figure of a statistics report is the number of names seen in a source
\* that are also seen in a classroom sheet, over the number of names seen in a source,
\* as a percentage, and is at most 100%.
C18_MatchFigureIsMatchedOverSources ==
  pc = "done" =>
    LET report == reports[Len(reports)]
        matched == Cardinality(students_in_sources \cap students_in_excel)
        seen == Cardinality(students_in_sources)
    IN  /\ report.match_percentage <= 1000
        /\ seen > 0 =>
             /\ 2 * seen * report.match_percentage >= 2000 * matched - seen
             /\ 2 * seen * report.match_percentage <= 2000 * matched + seen

\* C19: the step that handles a body row whose last name or first name is empty or a
\* header token changes no counter, no set and no output row, and the step that handles
\* any other body row counts it once: one more student, one more output row, and its
\* name in the seen-in-classroom set.
C19_RowWithEmptyOrHeaderFieldIsSkipped ==
  [][ExcelRowStep =>
       LET row == StudentData(workbook[sheet_i])[row_i]
       IN  IF C14_ValidRow(row)
           THEN /\ stats'.total_students = stats.total_students + 1
                /\ Len(wb'[Len(wb')].rows) = Len(wb[Len(wb)].rows) + 1
                /\ _normalize_name(Strip(row[1]) \o <<",", " ">> \o Strip(row[2]))
                     \in students_in_excel'
           ELSE UNCHANGED <<attributes, wb, wb_aig_only>>]_vars

\* a reading or math token is TD, whatever its case, and neither is in the stronger set
C20_TdOnly(reading_token, math_token, stronger) ==
  /\ Upper(reading_token) = TD \/ Upper(math_token) = TD
  /\ Upper(reading_token) \notin stronger
  /\ Upper(math_token) \notin stronger

\* the names a PDF line marks as TD-only: its own name, or none
C20_PdfMarks(raw) ==
  IF /\ C11_WellFormed(raw)
     /\ C20_TdOnly(C11_FromAnchor(raw).from[3], C11_FromAnchor(raw).from[4],
                   {AG, IG, AIG})
  THEN {C11_Record(raw).name}
  ELSE {}

\* the names a Word row marks as TD-only: its own name, or none
C20_WordMarks(cells) ==
  IF /\ Len(cells) >= 3
     /\ Strip(cells[1]) # <<>>
     /\ C20_TdOnly(Strip(cells[2]), Strip(cells[3]), {AIG})
  THEN {_process_word_name(Strip(cells[1]))}
  ELSE {}

C21_Grades == {<<>>, <<"3">>, <<"4">>, NA}

\* C21: the step that counts a classroom row whose normalized name has an entry in the
\* record map writes exactly the math and reading flags of that record, whatever the
\* index sets hold, and the lookup gives these flags for every classroom grade, equal
\* to the grade of the record or not.
C21_DirectEntryGivesRecordFlags ==
  [][(/\ ExcelRowStep
      /\ Len(wb'[Len(wb')].rows) = Len(wb[Len(wb)].rows) + 1
      /\ LET row == StudentData(workbook[sheet_i])[row_i]
         IN  _normalize_name(Strip(row[1]) \o <<",", " ">> \o Strip(row[2]))
               \in DOMAIN student_details) =>
       LET row == StudentData(workbook[sheet_i])[row_i]
           full_name == Strip(row[1]) \o <<",", " ">> \o Strip(row[2])
           record == student_details[_normalize_name(full_name)]
           out == wb'[Len(wb')].rows[Len(wb'[Len(wb')].rows)]
       IN  /\ out.math = record.math
           /\ out.reading = record.reading
           /\ \A g \in C21_Grades :
                _find_student_in_aig(Self, full_name, g)
                  = [math |-> record.math, reading |-> record.reading]]_vars

\* the row (Smith, John) of a grade 4 sheet has been written with math false from its
\* grade 3 record, while the math index holds the name, and the mismatch was logged
C21_Witness ==
  /\ pc = "excel_rows"
  /\ Len(wb) > 0
  /\ Len(wb[Len(wb)].rows) > 0
  /\ LET out == wb[Len(wb)].rows[Len(wb[Len(wb)].rows)]
     IN  /\ out.lastname = CellSmith
         /\ out.firstname = Strip(CellJohn)
         /\ ~out.math
  /\ CellSmithJohn \in DOMAIN student_details
  /\ student_details[CellSmithJohn].grade = <<"3">>
  /\ CellSmithJohn \in aig_students.math
  /\ _extract_classroom_info(workbook[sheet_i].rows[1]).grade = <<"4">>
  /\ MsgGradeMismatch \in log

\* the positions of process() inside update_excel_with_aig_data,
\* generate_missing_students_report and print_statistics
C22_Downstream == {"excel_open", "excel_sheet", "excel_rows", "missing", "stats"}

\* C22: no step of the classroom reconciler, of the missing-students report or of the
\* statistics report changes the record map, the index sets or the seen-in-source set;
\* the step that counts a classroom row adds its normalized name to the
\* seen-in-classroom set and no other step of the three changes that set.
C22_DownstreamLeavesRecordsAlone ==
  [][(pc \in C22_Downstream) =>
       (/\ UNCHANGED <<student_details, aig_students, students_in_sources>>
        /\ IF ExcelRowStep /\ stats'.total_students # stats.total_students
           THEN LET row == StudentData(workbook[sheet_i])[row_i]
                IN  students_in_excel' = students_in_excel \cup
                      {_normalize_name(Strip(row[1]) \o <<",", " ">> \o Strip(row[2]))}
           ELSE students_in_excel' = students_in_excel)]_vars

\* a run with source records has counted classroom rows, listed a missing student and
\* printed its statistics
C22_Witness ==
  /\ pc = "done"
  /\ DOMAIN student_details # {}
  /\ aig_students.math # {}
  /\ students_in_excel # {}
  /\ Len(wb_missing) > 0
  /\ Len(reports) = 1

\* the Process button can be clicked
ButtonEnabled == gui.process_button = [state |-> "normal", shown |-> TRUE]

\* C23: in the front-end a run that failed leads to the Process button being enabled
\* again, a run that succeeded leads to the completion options being shown, where
\* "Process New Files" can be clicked and a click of it enables the Process button; so
\* at all times the button is enabled again later, or the completion options are
\* shown, or the application was closed from them.
C23_NoRunLeavesButtonDisabled ==
  /\ (worker = "finally" /\ ~gui.processing_success) ~> ButtonEnabled
  /\ (worker = "finally" /\ gui.processing_success) ~> gui.completion_frame
  /\ []((gui.completion_frame /\ gui.root = "open") => ENABLED ClickNewProcess)
  /\ [][ClickNewProcess => ButtonEnabled']_vars
  /\ []<>(ButtonEnabled \/ gui.completion_frame \/ gui.root = "destroyed")

\* a run failed, the button was enabled again and a second run was started
C23_Witness == worker = "started" /\ pc = "raised" /\ ~ButtonEnabled

\* processing_complete is among the callbacks not yet run
CompletionPending ==
  \E k \in 1..Len(after_queue) : after_queue[k] = "processing_complete"

\* C30: in the front-end at most one worker thread exists at any time; a worker is
\* started only by a click of the enabled Process button, which that click disables;
\* the button stays disabled while the worker runs and until its processing_complete
\* callback has run; it is enabled again only by that callback after a failure or by
\* "Process New Files" from the completion options; and process() starts on an instance
\* as the constructor leaves it.
C30_OneWorkerWithItsOwnProcessor ==
  [][(/\ threads' <= 1
      /\ (threads' > threads) => (ButtonEnabled /\ ~ButtonEnabled')
      /\ (worker' # "none" \/ CompletionPending') => ~ButtonEnabled'
      /\ (~ButtonEnabled /\ ButtonEnabled') =>
           \/ gui.completion_frame
           \/ (/\ worker = "none"
               /\ after_queue # <<>>
               /\ Head(after_queue) = "processing_complete"
               /\ ~gui.processing_success)
      /\ ProcessStart => (/\ worker = "process"
                          /\ Self = NewSelf
                          /\ calls = 0
                          /\ wb = <<>>
                          /\ wb_aig_only = <<>>
                          /\ reports = <<>>))]_vars

\* a worker was started after the run before it succeeded
C30_Witness == worker = "started" /\ pc = "done" /\ threads = 1

\* the number of pairs the loops of batch_process go through
PairCount == Len(batch_files.pdf) * Len(batch_files.excel)

\* the place of the pair at position p in the order of the loops
PairIndex(p) == (p.pdf - 1) * Len(batch_files.excel) + p.excel

\* the step just taken ended the try block of the current pair: its processor could
\* not be constructed, or process() returned or raised
PairLeft ==
  /\ batch_pair.at \in {"pair", "running"}
  /\ batch_pair' # batch_pair
  /\ batch_pair'.at # "running"

\* C24: batch mode starts process() of every (PDF, spreadsheet) pair on a processor
\* as the constructor leaves it, over the files of that pair only; and when the try
\* block of a pair ends, by a failed construction, a raise or a return, exactly one
\* record of that pair is logged (an error record after a failure) and the loops go on
\* to the next pair, ending only after the last pair.
C24_EachPairOwnInstanceAndErrorsLogged ==
  [][(/\ ProcessStart =>
           (/\ batch_pair.at = "running"
            /\ Self = NewSelf
            /\ calls = 0
            /\ wb = <<>>
            /\ wb_aig_only = <<>>
            /\ reports = <<>>
            /\ pdf_text = PdfTextOf(batch_files.pdf[batch_pair.pdf])
            /\ workbook = WorkbookOf(batch_files.excel[batch_pair.excel]))
      /\ PairLeft =>
           LET k == PairIndex(batch_pair)
               failed == batch_pair.at = "pair" \/ pc = "raised"
           IN  /\ Len(batch_log') = k
               /\ batch_log'[k] =
                    [level |-> IF failed THEN "ERROR" ELSE "INFO",
                     pdf |-> batch_files.pdf[batch_pair.pdf],
                     excel |-> batch_files.excel[batch_pair.excel]]
               /\ IF k < PairCount
                  THEN batch_pair'.at = "pair" /\ PairIndex(batch_pair') = k + 1
                  ELSE batch_pair'.at = "done")]_vars

\* a pair was processed to its end after the pair before it had raised
C24_Witness ==
  /\ Len(batch_log) >= 2
  /\ batch_log[1].level = "ERROR"
  /\ batch_log[2].level = "INFO"
  /\ students_in_excel # {}

\* the fill of the cells of sheet row r
FillAt(ws, r) == IF r \in DOMAIN ws.fill THEN ws.fill[r] ELSE NoColor

\* the fill that belongs to a status label
C25_FillOfStatus(status) ==
  IF status = "Both Math & Reading" THEN "FFFF00"
  ELSE IF status = "Math Only" THEN "ADD8E6"
  ELSE IF status = "Reading Only" THEN "FFA500"
  ELSE NoColor

\* C25: in the main output workbook the cells of every student row carry the fill of
\* that row's own status (yellow for "Both Math & Reading", light blue for "Math
\* Only", orange for "Reading Only", none for "None"), and no fill lies on a sheet row
\* that holds no student row, also when body rows between students were skipped.
C25_EveryRowFilledByItsOwnStatus ==
  \A k \in 1..Len(wb) :
    /\ \A i \in 1..Len(wb[k].rows) :
         FillAt(wb[k], wb[k].placed[i]) = C25_FillOfStatus(wb[k].rows[i].status)
    /\ \A r \in DOMAIN wb[k].fill : \E i \in 1..Len(wb[k].rows) : wb[k].placed[i] = r

\* the status counters of self.stats
C26_Counters == {"aig_both", "aig_math_only", "aig_reading_only", "aig_none"}

\* the label, fill and counter that belong to a pair of flags
C26_Table(math, reading) ==
  IF math /\ reading
  THEN [label |-> "Both Math & Reading", color |-> "FFFF00", counter |-> "aig_both"]
  ELSE IF math
  THEN [label |-> "Math Only", color |-> "ADD8E6", counter |-> "aig_math_only"]
  ELSE IF reading
  THEN [label |-> "Reading Only", color |-> "FFA500", counter |-> "aig_reading_only"]
  ELSE [label |-> "None", color |-> NoColor, counter |-> "aig_none"]

\* C26: the step that counts a classroom row writes the status label that belongs to
\* the row's resolved (math, reading) flags, chooses the fill that belongs to them
\* (yellow for both, light blue for math only, orange for reading only) and writes no
\* fill when both are false, and increments by one the status counter that belongs to
\* them and no other status counter.
C26_LabelColourCounterFollowFlags ==
  [][(ExcelRowStep /\ Len(wb'[Len(wb')].rows) = Len(wb[Len(wb)].rows) + 1) =>
       LET ws == wb[Len(wb)]
           ws_after == wb'[Len(wb')]
           out == ws_after.rows[Len(ws_after.rows)]
           entry == C26_Table(out.math, out.reading)
       IN  /\ out.status = entry.label
           /\ ws_after.fill = IF entry.color = NoColor THEN ws.fill
                              ELSE DictSet(ws.fill, row_i + 2, entry.color)
           /\ stats'[entry.counter] = stats[entry.counter] + 1
           /\ \A c \in C26_Counters \ {entry.counter} : stats'[c] = stats[c]]_vars

\* the row (Smith, John) of a grade 3 sheet has been written from the record with
\* reading and math true, as "Both Math & Reading", and a yellow fill was written
C26_Witness ==
  /\ pc = "excel_rows"
  /\ Len(wb) > 0
  /\ Len(wb[Len(wb)].rows) > 0
  /\ LET ws == wb[Len(wb)]
         out == ws.rows[Len(ws.rows)]
     IN  /\ out.lastname = CellSmith
         /\ out.firstname = Strip(CellJohn)
         /\ out.status = "Both Math & Reading"
         /\ \E r \in DOMAIN ws.fill : ws.fill[r] = "FFFF00"
  /\ CellSmithJohn \in DOMAIN student_details
  /\ student_details[CellSmithJohn].math
  /\ student_details[CellSmithJohn].reading
  /\ _extract_classroom_info(workbook[sheet_i].rows[1]).grade = <<"3">>
  /\ stats.aig_both = 1

\* C27: in every state of a run of process() on a new instance total_students is the
\* sum of the four status counters, the classroom set holds at most total_students
\* names, and the total AIG count, as computed now and as every report printed it, is
\* total_students less aig_none.
C27_CountersAgree ==
  /\ stats.total_students
       = stats.aig_both + stats.aig_math_only + stats.aig_reading_only + stats.aig_none
  /\ Cardinality(students_in_excel) <= stats.total_students
  /\ Statistics(Self).total_aig = stats.total_students - stats.aig_none
  /\ \A k \in 1..Len(reports) :
       reports[k].total_aig = reports[k].total_students - reports[k].aig_none

\* statistics were printed after a classroom name was counted twice, with rows with
\* and without a status
C27_Witness ==
  /\ pc = "done"
  /\ Len(reports) = 1
  /\ Cardinality(students_in_excel) < stats.total_students
  /\ stats.aig_none > 0
  /\ reports[1].total_aig > 0

\* C28: after any sequence of PDF lines and Word rows the names seen in a source are
\* exactly the keys of the record map, and the math index, the reading index and the
\* TD-only set hold only such names; so every missing student (seen in a source, not
\* in a classroom sheet) has a record, and once the missing-students report is
\* generated it has a row with that student's name and the flags of that record.
C28_NameSetsAreRecordKeys ==
  /\ students_in_sources = DOMAIN student_details
  /\ aig_students.math \subseteq DOMAIN student_details
  /\ aig_students.reading \subseteq DOMAIN student_details
  /\ stats.td_only_students \subseteq DOMAIN student_details
  /\ \A name \in students_in_sources \ students_in_excel :
       /\ name \in DOMAIN student_details
       /\ pc \in {"stats", "done"} =>
            \E i \in 1..Len(wb_missing) :
              /\ wb_missing[i].name = name
              /\ wb_missing[i].math = student_details[name].math
              /\ wb_missing[i].reading = student_details[name].reading

\* the report was generated with a missing student from the PDF and one from the Word
\* document, one of them TD-only, while another source student is in a classroom sheet
C28_Witness ==
  /\ pc = "stats"
  /\ Len(wb_missing) = 2
  /\ wb_missing[1].source # wb_missing[2].source
  /\ stats.td_only_students # {}
  /\ students_in_sources \cap students_in_excel # {}

\* no classroom row was counted, or no source student was stored
C29_EmptyData == stats.total_students = 0 \/ students_in_sources = {}

\* C29: on empty data, when no classroom row was counted or no source student was
\* stored, the reconciliation, the missing-students report and the statistics can
\* each complete (nothing but a failing write of a file stops them), and every report
\* gives 0 for the percentages of an empty classroom total and 0 for the match
\* percentage of an empty source set.
C29_EmptyDataCompletesWithZeroPercentages ==
  /\ (C29_EmptyData /\ pc = "excel_sheet" /\ sheet_i > Len(workbook)) =>
       ENABLED (ExcelSave /\ pc' = "missing")
  /\ (C29_EmptyData /\ pc = "missing") => ENABLED (MissingReport /\ pc' = "stats")
  /\ (C29_EmptyData /\ pc = "stats") => ENABLED (PrintStatistics /\ pc' = "done")
  /\ \A k \in 1..Len(reports) :
       /\ reports[k].total_students = 0 =>
            (reports[k].aig_percentage = 0 /\ reports[k].td_percentage = 0)
       /\ reports[k].in_sources = 0 => reports[k].match_percentage = 0

====
